---- MODULE Spec2Model ----
(***************************************************************************)
(* State-machine model of the trading core: RiskManager.check_trade,       *)
(* TradingEngine.process_ticker and the PositionTracker monitoring task.   *)
(*                                                                         *)
(* Number representation (floats of the source as exact integers):         *)
(*   money                cents                                            *)
(*   strength, confidence hundredths (0..100)                              *)
(*   percentages          whole percent                                    *)
(*   prices of RiskCheck  1e-4 dollars (reference price 100.0 = 1000000)   *)
(*   time                 hours since the start of the run                 *)
(*   Optional[float]      None is the value -1                             *)
(***************************************************************************)
EXTENDS Integers, Sequences, FiniteSets, TLC

None == 0 - 1

\* ---------------------------------------------------------------- bounds
MaxTime == 24
TickHours == 12
MaxHistory == 3
MaxCalls == 8
MaxTasks == 2
MaxSources == 3
MaxCatalog == 4
MaxSelects == 2
MaxSubmitted == 2
MaxFills == 5
MaxDeskTime == 48

\* ------------------------------------------------------------- variables
VARIABLES
    now,                \* datetime.now(), in hours
    engine_is_running,  \* TradingEngine.is_running
    traders,            \* TradingEngine.traders (registered platforms)
    trade_history,      \* TradingEngine.trade_history
    last_call,          \* observation of the process_ticker call in progress
    last_failed,        \* observation: ticker of the latest call if it failed
    unavailable,        \* platforms whose connect() failed in start()
    rc_in,              \* arguments and account of a check_trade call
    rc_out,             \* RiskCheck returned for rc_in
    agg_in,             \* SignalAggregator: policy and registered sources
    agg_out,            \* what aggregate() returned (or raised) for agg_in
    catalog,            \* StrategyManager.strategies, in registration order
    selected,           \* observation of the latest select_strategy call
    stop_in,            \* configuration and arguments of a _calculate_stop_loss call
    stop_out,           \* what _calculate_stop_loss computed for stop_in
    venue,              \* each Trader object: connection state, orders submitted
    po,                 \* observation of the latest Trader.place_order call
    pt,                 \* the process_ticker coroutines in flight, by call slot
    tracker_is_running, \* PositionTracker.is_running
    monitor_task,       \* PositionTracker.monitor_task (0 = None)
    tasks,              \* the asyncio tasks created by start()
    books,              \* each trader's position book
    alerts,             \* PositionTracker.alerts
    stats,              \* PositionTracker.stats
    cycles,             \* number of monitoring cycles begun
    trader_calls,       \* number of trader calls the tracker has issued
    cycle_log,          \* observation: positions evaluated in this cycle
    api,                \* the caller of start()/stop(): where it stands
    last_op             \* observation: the step taken last

engineVars == <<engine_is_running, traders, trade_history, last_call,
               last_failed, unavailable>>
riskVars == <<rc_in, rc_out>>
aggVars == <<agg_in, agg_out>>
catalogVars == <<catalog, selected>>
stopVars == <<stop_in, stop_out>>
venueVars == <<venue, po>>
deskVars == <<pt>>
extraVars == <<stopVars, venueVars, deskVars>>
callVars == <<riskVars, aggVars, catalogVars, extraVars>>
trackerVars == <<tracker_is_running, monitor_task, tasks, books, alerts,
                 stats, cycles, trader_calls, cycle_log, api>>
vars == <<now, engineVars, callVars, trackerVars, last_op>>

\* ------------------------------------------------------------ small helpers
\* the step taken last; eval is filled by the step that evaluates a position
NoEval == [task |-> 0]
Op(name) == [name |-> name, eval |-> NoEval]

Min(a, b) == IF a < b THEN a ELSE b
Max(a, b) == IF a > b THEN a ELSE b
Abs(x) == IF x < 0 THEN -x ELSE x

RECURSIVE SeqFilterCount(_, _, _)
SeqFilterCount(s, ticker, day) ==
    IF s = <<>> THEN 0
    ELSE SeqFilterCount(Tail(s), ticker, day)
         + (IF (ticker = "" \/ Head(s).ticker = ticker)
               /\ (day = None \/ Head(s).timestamp \div 24 = day)
            THEN 1 ELSE 0)

\* ============================================================ RiskManager
\* RiskManager.__init__ configuration defaults
max_open_positions == 4
max_risk_per_trade == 50000
max_loss_per_trade_pct == 10
max_total_exposure_pct == 50
max_stop_loss_pct == 12
min_stop_loss_pct == 5
risk_reward_ratio10 == 30
daily_loss_limit == 100000
reference_price == 1000000

\* RiskManager._get_account_summary: the simulated account
get_account_summary ==
    [total_equity |-> 700000, available_cash |-> 600000,
     total_position_value |-> 100000, num_positions |-> 1,
     open_tickers |-> {"GOLD"}, daily_pnl |-> -10000]

\* RiskCheck.rejected
RiskCheck_rejected(reason) ==
    [approved |-> FALSE, approved_size |-> 0, stop_loss |-> None,
     take_profit |-> None, max_loss |-> 0, reason |-> reason]

\* RiskCheck.approved_trade
RiskCheck_approved_trade(size, stop_loss, take_profit, max_loss) ==
    [approved |-> TRUE, approved_size |-> size, stop_loss |-> stop_loss,
     take_profit |-> take_profit, max_loss |-> max_loss, reason |-> "ok"]

\* RiskManager._calculate_stop_loss, lines 187-193: the stop distance in
\* 1e-4 (percent * 100) under a configuration min_pct, max_pct (whole percent)
stop_pct_of_rising(min_pct, max_pct, strength) ==
    LET base == min_pct * 100
        adjusted == base + (max_pct - min_pct) * strength
    IN Max(min_pct * 100, Min(adjusted, max_pct * 100))

stop_pct_of(min_pct, max_pct, strength) ==
    LET base == min_pct * 100
        adjusted == base + (max_pct - min_pct) * (100 - strength)
    IN Max(min_pct * 100, Min(adjusted, max_pct * 100))

\* the same under the default configuration
stop_pct_bp(strength) ==
    stop_pct_of(min_stop_loss_pct, max_stop_loss_pct, strength)

calculate_stop_loss(signal, current_price) ==
    LET d == (current_price \div 10000) * stop_pct_bp(signal.strength)
    IN IF signal.signal_type = "BUY" THEN current_price - d
       ELSE current_price + d

\* RiskManager._calculate_take_profit
calculate_take_profit_long_only(signal, current_price, stop_loss) ==
    LET risk == Abs(current_price - stop_loss)
        reward == (risk * risk_reward_ratio10) \div 10
    IN current_price + reward

calculate_take_profit(signal, current_price, stop_loss) ==
    LET risk == Abs(current_price - stop_loss)
        reward == (risk * risk_reward_ratio10) \div 10
    IN IF signal.signal_type = "BUY" THEN current_price + reward
       ELSE current_price - reward

\* RiskManager.check_trade, checks 1..6 in source order
check_trade_swapped(account, ticker, signal, proposed_size) ==
    LET max_loss == (proposed_size * max_loss_per_trade_pct) \div 100 IN
    IF proposed_size * max_loss_per_trade_pct > max_risk_per_trade * 100
    THEN RiskCheck_rejected("risk")
    ELSE IF account.available_cash < proposed_size
    THEN RiskCheck_rejected("cash")
    ELSE IF account.num_positions >= max_open_positions
    THEN RiskCheck_rejected("positions")
    ELSE IF (account.total_position_value + proposed_size) * 100
            > account.total_equity * max_total_exposure_pct
    THEN RiskCheck_rejected("exposure")
    ELSE IF ticker \in account.open_tickers
    THEN RiskCheck_rejected("held")
    ELSE IF account.daily_pnl < -daily_loss_limit
    THEN RiskCheck_rejected("daily_loss")
    ELSE LET sl == calculate_stop_loss(signal, reference_price)
             tp == calculate_take_profit(signal, reference_price, sl)
         IN RiskCheck_approved_trade(proposed_size, sl, tp, max_loss)

check_trade(account, ticker, signal, proposed_size) ==
    LET max_loss == (proposed_size * max_loss_per_trade_pct) \div 100 IN
    IF account.available_cash < proposed_size
    THEN RiskCheck_rejected("cash")
    ELSE IF account.num_positions >= max_open_positions
    THEN RiskCheck_rejected("positions")
    ELSE IF proposed_size * max_loss_per_trade_pct > max_risk_per_trade * 100
    THEN RiskCheck_rejected("risk")
    ELSE IF (account.total_position_value + proposed_size) * 100
            > account.total_equity * max_total_exposure_pct
    THEN RiskCheck_rejected("exposure")
    ELSE IF ticker \in account.open_tickers
    THEN RiskCheck_rejected("held")
    ELSE IF account.daily_pnl < -daily_loss_limit
    THEN RiskCheck_rejected("daily_loss")
    ELSE LET sl == calculate_stop_loss(signal, reference_price)
             tp == calculate_take_profit(signal, reference_price, sl)
         IN RiskCheck_approved_trade(proposed_size, sl, tp, max_loss)

\* ======================================================== StrategyManager
\* StrategyManager._register_default_strategies, in registration order
strategies ==
    << [name |-> "sentiment_short", min_confidence |-> 80, min_strength |-> 70,
        required_signal_sources |-> {"sentiment"}, max_hold_hours |-> 72,
        base_position_size |-> 80000, sizing_method |-> "fixed",
        max_trades_per_day |-> 2, min_signal_gap_hours |-> 6,
        allowed_asset_types |-> {"crypto"}],
       [name |-> "sentiment_swing", min_confidence |-> 75, min_strength |-> 60,
        required_signal_sources |-> {"sentiment"}, max_hold_hours |-> 168,
        base_position_size |-> 120000, sizing_method |-> "kelly_conservative",
        max_trades_per_day |-> 2, min_signal_gap_hours |-> 12,
        allowed_asset_types |-> {"stock", "crypto"}],
       [name |-> "technical_trend", min_confidence |-> 70, min_strength |-> 60,
        required_signal_sources |-> {"technical", "sentiment"},
        max_hold_hours |-> 480,
        base_position_size |-> 150000, sizing_method |-> "dynamic",
        max_trades_per_day |-> 1, min_signal_gap_hours |-> 24,
        allowed_asset_types |-> {"stock", "crypto"}] >>

NoStrategy == [name |-> "none"]

\* StrategyManager.select_strategy: candidates[0], or None
eligible(strategy, signal_sources, asset_type) ==
    /\ asset_type \in strategy.allowed_asset_types
    /\ \A src \in strategy.required_signal_sources : src \in signal_sources

\* the same over a catalog cat (self.strategies.values(), in insertion order)
select_from_last(cat, signal_sources, asset_type) ==
    LET candidates == {i \in 1..Len(cat) :
                          eligible(cat[i], signal_sources, asset_type)}
    IN IF candidates = {} THEN NoStrategy
       ELSE cat[CHOOSE i \in candidates : \A j \in candidates : i >= j]

select_from(cat, signal_sources, asset_type) ==
    LET candidates == {i \in 1..Len(cat) :
                          eligible(cat[i], signal_sources, asset_type)}
    IN IF candidates = {} THEN NoStrategy
       ELSE cat[CHOOSE i \in candidates : \A j \in candidates : i <= j]

select_strategy(signal_sources, asset_type) ==
    select_from(strategies, signal_sources, asset_type)

\* StrategyManager.register_strategy: self.strategies[strategy.name] = strategy
\* (a dict keeps the place of a name that is registered again)
register_strategy_in(cat, strategy) ==
    IF \E i \in 1..Len(cat) : cat[i].name = strategy.name
    THEN [i \in 1..Len(cat) |->
             IF cat[i].name = strategy.name THEN strategy ELSE cat[i]]
    ELSE Append(cat, strategy)

\* ========================================================== TradingEngine
\* TradingEngine.__init__: platform_rules, with .get(asset_type, 'dydx')
select_platform(asset_type) ==
    CASE asset_type = "crypto" -> "dydx"
      [] asset_type = "stock" -> "ibkr"
      [] asset_type = "option" -> "ibkr"
      [] OTHER -> "dydx"

\* TradingEngine._meets_strategy_criteria
meets_strategy_criteria_no_neutral(signal, strategy) ==
    IF signal.confidence < strategy.min_confidence THEN FALSE
    ELSE IF signal.strength < strategy.min_strength THEN FALSE
    ELSE TRUE

meets_strategy_criteria(signal, strategy) ==
    IF signal.confidence < strategy.min_confidence THEN FALSE
    ELSE IF signal.strength < strategy.min_strength THEN FALSE
    ELSE IF signal.signal_type = "NEUTRAL" THEN FALSE
    ELSE TRUE

\* ticker_trades[-1]: the entry of the ticker appended last
RECURSIVE last_ticker_trade(_, _)
last_ticker_trade(history, ticker) ==
    IF history = <<>> THEN None
    ELSE IF history[Len(history)].ticker = ticker
    THEN history[Len(history)].timestamp
    ELSE last_ticker_trade(SubSeq(history, 1, Len(history) - 1), ticker)

\* TradingEngine._check_trade_frequency
check_trade_frequency_per_ticker(history, ticker, strategy, t) ==
    IF SeqFilterCount(history, ticker, t \div 24) >= strategy.max_trades_per_day
    THEN FALSE
    ELSE LET last_trade_time == last_ticker_trade(history, ticker) IN
         IF last_trade_time # None
            /\ t - last_trade_time < strategy.min_signal_gap_hours
         THEN FALSE
         ELSE TRUE

check_trade_frequency(history, ticker, strategy, t) ==
    IF SeqFilterCount(history, "", t \div 24) >= strategy.max_trades_per_day
    THEN FALSE
    ELSE LET last_trade_time == last_ticker_trade(history, ticker) IN
         IF last_trade_time # None
            /\ t - last_trade_time < strategy.min_signal_gap_hours
         THEN FALSE
         ELSE TRUE

\* TradingEngine._calculate_position_size (cents; the catalog's sizes divide)
calculate_position_size(signal, strategy) ==
    LET base_size == strategy.base_position_size IN
    CASE strategy.sizing_method = "fixed" -> base_size
      [] strategy.sizing_method = "kelly" ->
            (base_size * signal.confidence * signal.strength) \div 10000
      [] strategy.sizing_method = "kelly_conservative" ->
            (base_size * signal.confidence * signal.strength) \div 40000
      [] OTHER -> base_size

NoOrder == [ticker |-> ""]
NoRisk == [approved |-> FALSE, approved_size |-> 0, stop_loss |-> None,
           take_profit |-> None, max_loss |-> 0, reason |-> "not_checked"]

\* TradingEngine._execute_trade: the Order built, the place_order call and
\* what is appended to trade_history.  place is the outcome of
\* trader.place_order: "filled", "rejected" (result.success false) or "raise".
build_order_buy_unless_sell(ticker, signal, risk_check, platform) ==
    [ticker |-> ticker,
     side |-> IF signal.signal_type = "SELL" THEN "SELL" ELSE "BUY",
     size |-> risk_check.approved_size,
     order_type |-> "MARKET",
     stop_loss |-> risk_check.stop_loss,
     take_profit |-> risk_check.take_profit,
     platform |-> platform]

build_order(ticker, signal, risk_check, platform) ==
    [ticker |-> ticker,
     side |-> IF signal.signal_type = "BUY" THEN "BUY" ELSE "SELL",
     size |-> risk_check.approved_size,
     order_type |-> "MARKET",
     stop_loss |-> risk_check.stop_loss,
     take_profit |-> risk_check.take_profit,
     platform |-> platform]

execute_trade_log_first(ticker, signal, strategy, risk_check, platform, place, t) ==
    [order |-> build_order(ticker, signal, risk_check, platform),
     placed |-> 1,
     appended |-> <<[ticker |-> ticker, strategy |-> strategy.name,
                     timestamp |-> t]>>,
     exc_hit |-> IF place = "raise" THEN "place_order" ELSE "none"]

execute_trade(ticker, signal, strategy, risk_check, platform, place, t) ==
    [order |-> build_order(ticker, signal, risk_check, platform),
     placed |-> 1,
     appended |-> IF place = "filled"
                  THEN <<[ticker |-> ticker, strategy |-> strategy.name,
                          timestamp |-> t]>>
                  ELSE <<>>,
     exc_hit |-> IF place = "raise" THEN "place_order" ELSE "none"]

\* A process_ticker call that returned before _execute_trade
Returned(gates, strategy, risk, exc_hit) ==
    [gates |-> gates, strategy |-> strategy.name, risk |-> risk,
     order |-> NoOrder, placed |-> 0, appended |-> <<>>, exc_hit |-> exc_hit]

\* TradingEngine.process_ticker as a function of the engine's state and of
\* what its collaborators answer:
\*   agg          the AggregatedSignal returned by aggregate
\*   exc          the collaborator that raises when reached ("none": nobody)
\*   has_position whether trader.get_position returns a position
\*   place        the outcome of trader.place_order
process_ticker_result(running, regs, history, t, ticker, asset_type, agg, exc, has_position, place) ==
    IF ~running THEN Returned(<<>>, NoStrategy, NoRisk, "none")
    ELSE IF exc = "aggregate"
    THEN Returned(<<"running">>, NoStrategy, NoRisk, exc)
    ELSE IF exc = "select_strategy"
    THEN Returned(<<"running">>, NoStrategy, NoRisk, exc)
    ELSE LET strategy == select_strategy(agg.sources, asset_type) IN
    IF strategy.name = "none"
    THEN Returned(<<"running">>, NoStrategy, NoRisk, "none")
    ELSE IF ~meets_strategy_criteria(agg, strategy)
    THEN Returned(<<"running", "strategy">>, strategy, NoRisk, "none")
    ELSE IF ~check_trade_frequency(history, ticker, strategy, t)
    THEN Returned(<<"running", "strategy", "criteria">>, strategy, NoRisk, "none")
    ELSE LET platform == select_platform(asset_type)
             g4 == <<"running", "strategy", "criteria", "frequency">>
    IN
    IF platform \notin regs THEN Returned(g4, strategy, NoRisk, "none")
    ELSE IF exc = "get_position"
    THEN Returned(Append(g4, "trader"), strategy, NoRisk, exc)
    ELSE IF has_position
    THEN Returned(Append(g4, "trader"), strategy, NoRisk, "none")
    ELSE LET g6 == g4 \o <<"trader", "position">>
             proposed_size == calculate_position_size(agg, strategy)
             risk_check == check_trade(get_account_summary, ticker, agg,
                                       proposed_size)
    IN
    IF exc = "check_trade" THEN Returned(g6, strategy, NoRisk, exc)
    ELSE IF ~risk_check.approved
    THEN Returned(g6, strategy, risk_check, "none")
    ELSE LET ex == execute_trade(ticker, agg, strategy, risk_check, platform,
                                 IF exc = "place_order" THEN "raise" ELSE place,
                                 t)
    IN [gates |-> Append(g6, "risk"), strategy |-> strategy.name,
        risk |-> risk_check, order |-> ex.order, placed |-> ex.placed,
        appended |-> ex.appended, exc_hit |-> ex.exc_hit]

\* except Exception in process_ticker / _execute_trade: nothing reaches the caller
raised_to_caller_uncaught(exc_hit) == exc_hit # "none"

raised_to_caller(exc_hit) == FALSE

\* ------------------------------------------------ inputs of the engine model
Tickers == {"BTC", "ETH", "GOLD"}
AssetTypes == {"crypto", "stock"}
Platforms == {"dydx", "ibkr"}
Sig(ty, st, cf, srcs) ==
    [signal_type |-> ty, strength |-> st, confidence |-> cf, sources |-> srcs]
SignalChoices ==
    { Sig("BUY", 85, 90, {"sentiment"}),
      Sig("SELL", 70, 80, {"sentiment"}),
      Sig("BUY", 69, 90, {"sentiment"}),
      Sig("BUY", 90, 74, {"sentiment"}),
      Sig("NEUTRAL", 90, 90, {"sentiment"}),
      Sig("CLOSE", 90, 90, {"sentiment", "technical"}),
      Sig("NEUTRAL", 0, 50, {}) }
\* what the collaborators answer in one call: exc, has_position, place
Env(exc, hp, pl) == [exc |-> exc, has_position |-> hp, place |-> pl]
EnvChoices ==
    { Env("none", FALSE, "filled"), Env("none", FALSE, "rejected"),
      Env("none", TRUE, "filled"), Env("aggregate", FALSE, "filled"),
      Env("select_strategy", FALSE, "filled"),
      Env("get_position", FALSE, "filled"),
      Env("check_trade", FALSE, "filled"),
      Env("place_order", FALSE, "filled") }

NoCall ==
    [ticker |-> "", asset_type |-> "", signal |-> Sig("NEUTRAL", 0, 50, {}),
     time |-> 0, hist_len |-> 0,
     has_position |-> FALSE, place |-> "none",
     gates |-> <<>>, strategy |-> "none", risk |-> NoRisk, order |-> NoOrder,
     placed |-> 0, exc_hit |-> "none", raised |-> FALSE,
     after_failure |-> FALSE]

\* ------------------------------------------------------- engine actions
\* TradingEngine.register_trader
register_trader(platform) ==
    /\ last_call = NoCall
    /\ platform \notin traders
    /\ traders' = traders \cup {platform}
    /\ last_op' = Op("register_trader")
    /\ UNCHANGED <<now, engine_is_running, trade_history, last_call,
                   last_failed, unavailable, callVars, trackerVars>>

\* TradingEngine.start: connect() is awaited on every registered trader;
\* failed holds those whose connect() returned False or raised
engine_start(failed) ==
    /\ last_call = NoCall
    /\ ~engine_is_running
    /\ failed \subseteq traders
    /\ unavailable' = failed
    /\ engine_is_running' = TRUE
    /\ last_op' = Op("engine_start")
    /\ UNCHANGED <<now, traders, trade_history, last_call, last_failed,
                   callVars, trackerVars>>

\* TradingEngine.stop
engine_stop ==
    /\ last_call = NoCall
    /\ engine_is_running
    /\ engine_is_running' = FALSE
    /\ unavailable' = {}
    /\ last_op' = Op("engine_stop")
    /\ UNCHANGED <<now, traders, trade_history, last_call, last_failed,
                   callVars, trackerVars>>

\* TradingEngine.process_ticker, one whole call
process_ticker(ticker, asset_type, agg, exc, has_position, place) ==
    /\ Len(trade_history) < MaxHistory
    /\ last_call = NoCall
    /\ LET r == process_ticker_result(engine_is_running, traders,
                    trade_history, now, ticker, asset_type, agg, exc,
                    has_position, place)
       IN /\ trade_history' = trade_history \o r.appended
          /\ last_call' =
               [ticker |-> ticker, asset_type |-> asset_type, signal |-> agg,
                time |-> now, hist_len |-> Len(trade_history),
                has_position |-> IF "trader" \in {r.gates[i] : i \in 1..Len(r.gates)}
                                    /\ r.exc_hit # "get_position"
                                 THEN has_position ELSE FALSE,
                place |-> IF r.placed = 1 /\ r.exc_hit = "none"
                          THEN place ELSE "none",
                gates |-> r.gates, strategy |-> r.strategy, risk |-> r.risk,
                order |-> r.order, placed |-> r.placed,
                exc_hit |-> r.exc_hit, raised |-> raised_to_caller(r.exc_hit),
                after_failure |-> last_failed = ticker]
    /\ last_op' = Op("process_ticker")
    /\ UNCHANGED <<now, engine_is_running, traders, last_failed, unavailable,
                   callVars, trackerVars>>

\* the call returns to the scheduler that made it
process_ticker_return ==
    /\ last_call # NoCall
    /\ last_call' = NoCall
    /\ last_failed' = IF last_call.exc_hit # "none" THEN last_call.ticker ELSE ""
    /\ last_op' = Op("process_ticker_return")
    /\ UNCHANGED <<now, engine_is_running, traders, trade_history, unavailable,
                   callVars, trackerVars>>

\* the clock
tick ==
    /\ last_call = NoCall
    /\ now + TickHours <= MaxTime
    /\ now' = now + TickHours
    /\ last_op' = Op("tick")
    /\ UNCHANGED <<engineVars, callVars, trackerVars>>

\* ======================================================== PositionTracker
\* PositionTracker.traders in registration order
TrackerTraders == <<"dydx", "ibkr">>

\* _is_time_limit_exceeded: max_hold_hours
max_hold_hours == 168

Pos(tk, side, sl, tp, opened) ==
    [ticker |-> tk, side |-> side, stop_loss |-> sl, take_profit |-> tp,
     opened_at |-> opened, last_updated |-> opened, entry_price |-> 100,
     current_price |-> 100]

\* Position.update_price: current_price and last_updated = datetime.now()
update_price_trailing(position, new_price) ==
    [position EXCEPT !.current_price = new_price, !.last_updated = now,
                     !.stop_loss = IF @ = None THEN None
                                   ELSE Max(@, new_price - 8)]

update_price(position, new_price) ==
    [position EXCEPT !.current_price = new_price, !.last_updated = now]

\* PositionTracker._should_stop_loss
should_stop_loss_strict(position) ==
    IF position.stop_loss = None THEN FALSE
    ELSE IF position.side = "LONG"
    THEN position.current_price < position.stop_loss
    ELSE position.current_price > position.stop_loss

should_stop_loss(position) ==
    IF position.stop_loss = None THEN FALSE
    ELSE IF position.side = "LONG"
    THEN position.current_price <= position.stop_loss
    ELSE position.current_price >= position.stop_loss

\* PositionTracker._should_take_profit
should_take_profit(position) ==
    IF position.take_profit = None THEN FALSE
    ELSE IF position.side = "LONG"
    THEN position.current_price >= position.take_profit
    ELSE position.current_price <= position.take_profit

\* PositionTracker._is_time_limit_exceeded
is_time_limit_exceeded(position, t) ==
    t - position.opened_at > max_hold_hours

\* PositionTracker._check_position, steps 2-4: the exit that fires
exit_for_profit_first(position, t) ==
    IF should_take_profit(position) THEN "take_profit"
    ELSE IF should_stop_loss(position) THEN "stop_loss"
    ELSE IF is_time_limit_exceeded(position, t) THEN "time_limit"
    ELSE "none"

exit_for(position, t) ==
    IF should_stop_loss(position) THEN "stop_loss"
    ELSE IF should_take_profit(position) THEN "take_profit"
    ELSE IF is_time_limit_exceeded(position, t) THEN "time_limit"
    ELSE "none"

\* asyncio.create_task(self._monitor_loop()): a task that has not run yet
NewTask ==
    [pc |-> "created", ti |-> 0, pi |-> 0, positions |-> <<>>,
     exit |-> "none", cancel |-> FALSE, cancelled_at |-> "none"]

\* Task.cancel(): CancelledError is thrown into the task at the await it is
\* suspended on (it is not an Exception, so only _monitor_loop catches it)
cancellable_at_sleep_only(pc) == pc \in {"created", "sleep"}

cancellable(pc) == pc # "done"

\* PositionTracker.start: the early return
start_is_noop_never(running) == FALSE

start_is_noop(running) == running

\* PositionTracker.stop: await self.monitor_task
stop_await_done_no_await(m) == TRUE

stop_await_done(m) == IF m = 0 THEN TRUE ELSE tasks[m].pc = "done"

InitStats ==
    [total_positions_monitored |-> 0, auto_closed_positions |-> 0,
     stop_loss_triggered |-> 0, take_profit_triggered |-> 0,
     time_limit_triggered |-> 0]

\* ---- where the task goes after an await returns
\* the for loop over self.traders.items() moves on, or the cycle ends and
\* the task sleeps
advance_trader(task) ==
    IF task.ti < Len(TrackerTraders)
    THEN [task EXCEPT !.pc = "get_all", !.ti = task.ti + 1, !.pi = 0,
                      !.positions = <<>>, !.exit = "none"]
    ELSE [task EXCEPT !.pc = "sleep", !.ti = 0, !.pi = 0,
                      !.positions = <<>>, !.exit = "none"]

\* the for loop over positions moves on: task.positions is what the iterator
\* has not passed yet, its head the position being checked, and task.pi the
\* index of that position in the list that was fetched
more_positions(task) == Len(task.positions) > 1

next_position(task) ==
    IF more_positions(task)
    THEN [task EXCEPT !.pc = "get_price", !.pi = task.pi + 1,
                      !.positions = Tail(task.positions), !.exit = "none"]
    ELSE advance_trader(task)

\* _check_position, except Exception (line 222): the error is logged and the
\* function returns to the loop over positions
on_check_position_error_propagates(task) == advance_trader(task)

on_check_position_error(task) == next_position(task)

\* _check_position after _close_position has returned: the *_triggered
\* counter is bumped and the function returns, whatever the result was
after_close_retry(task, res) ==
    IF res = "success" THEN next_position(task) ELSE task

after_close(task, res) == next_position(task)

calls_issued(task) == IF task.pc \in {"get_all", "get_price", "close"} THEN 1 ELSE 0

\* the while self.is_running test, then the first await of the cycle
loop_head(task, running) ==
    IF running
    THEN [task EXCEPT !.pc = "get_all", !.ti = 1, !.pi = 0,
                      !.positions = <<>>, !.exit = "none"]
    ELSE [NewTask EXCEPT !.pc = "done", !.cancel = task.cancel]

RemoveTicker(book, tk) ==
    SelectSeq(book, LAMBDA p : p.ticker # tk)

PriceChoices == {0, 92, 93, 110}

\* ------------------------------------------------------ tracker actions
\* bookkeeping common to every step of a task: nt is the task after the step
TaskStep(t, nt) ==
    /\ calls_issued(nt) = 1 => trader_calls < MaxCalls
    /\ tasks' = [tasks EXCEPT ![t] = nt]
    /\ trader_calls' = trader_calls + calls_issued(nt)

Resumes(t) ==
    /\ t \in 1..Len(tasks)
    /\ ~(tasks[t].cancel /\ cancellable(tasks[t].pc))

\* line 135: the counter is bumped before each _check_position call
Monitored_after_first(st, nt) ==
    [st EXCEPT !.total_positions_monitored =
                   @ + (IF nt.pc = "get_price" /\ nt.pi > 1 THEN 1 ELSE 0)]

Monitored(st, nt) ==
    [st EXCEPT !.total_positions_monitored =
                   @ + (IF nt.pc = "get_price" THEN 1 ELSE 0)]

\* _monitor_loop: the task runs for the first time
task_start(t) ==
    /\ Resumes(t)
    /\ tasks[t].pc = "created"
    /\ LET nt == loop_head(tasks[t], tracker_is_running) IN
          /\ TaskStep(t, nt)
          /\ cycles' = cycles + (IF nt.pc = "get_all" THEN 1 ELSE 0)
    /\ cycle_log' = <<>>
    /\ last_op' = Op("task_start")
    /\ UNCHANGED <<now, engineVars, callVars, tracker_is_running,
                   monitor_task, books, alerts, stats, api>>

\* _monitor_loop: asyncio.sleep(check_interval) returns
task_wake(t) ==
    /\ Resumes(t)
    /\ tasks[t].pc = "sleep"
    /\ LET nt == loop_head(tasks[t], tracker_is_running) IN
          /\ TaskStep(t, nt)
          /\ cycles' = cycles + (IF nt.pc = "get_all" THEN 1 ELSE 0)
    /\ cycle_log' = <<>>
    /\ last_op' = Op("task_wake")
    /\ UNCHANGED <<now, engineVars, callVars, tracker_is_running,
                   monitor_task, books, alerts, stats, api>>

\* _check_all_positions: trader.get_all_positions() returns or raises
task_get_all_return(t, res) ==
    /\ Resumes(t)
    /\ tasks[t].pc = "get_all"
    /\ LET task == tasks[t]
           positions == IF res = "ok" THEN books[TrackerTraders[task.ti]]
                        ELSE <<>>
           nt == IF positions = <<>> THEN advance_trader(task)
                 ELSE [task EXCEPT !.positions = positions, !.pi = 1,
                                   !.pc = "get_price"]
       IN /\ TaskStep(t, nt)
          /\ stats' = Monitored(stats, nt)
    /\ last_op' = [name |-> "task_get_all_return",
                   eval |-> [task |-> t, result |-> res,
                             trader |-> TrackerTraders[tasks[t].ti]]]
    /\ UNCHANGED <<now, engineVars, callVars, tracker_is_running,
                   monitor_task, books, alerts, cycles, cycle_log, api>>

\* _check_position: trader.get_current_price() returns or raises; the price
\* is stored and the exits are evaluated up to the await of _close_position
task_price_return(t, raise, price) ==
    /\ Resumes(t)
    /\ tasks[t].pc = "get_price"
    /\ LET task == tasks[t]
           position == update_price(Head(task.positions), price)
           ex == IF raise THEN "none" ELSE exit_for(position, now)
           seen == IF raise THEN task
                   ELSE [task EXCEPT !.positions[1] = position]
           nt == IF raise THEN on_check_position_error(task)
                 ELSE IF ex = "none" THEN next_position(seen)
                 ELSE [seen EXCEPT !.pc = "close", !.exit = ex]
           new_alerts == IF ex = "none" THEN <<>>
                         ELSE <<[ticker |-> position.ticker, alert_type |-> ex]>>
       IN /\ TaskStep(t, nt)
          /\ alerts' = alerts \o new_alerts
          /\ stats' = Monitored(stats, nt)
          /\ cycle_log' = Append(cycle_log,
                [trader |-> TrackerTraders[task.ti],
                 ticker |-> position.ticker, exit |-> ex,
                 alerts_added |-> Len(new_alerts),
                 closes |-> IF nt.pc = "close" THEN 1 ELSE 0])
          /\ last_op' = [name |-> "task_price_return",
                         eval |-> [task |-> t, position |-> position,
                                   raised |-> raise, exit |-> ex,
                                   time |-> now]]
    /\ UNCHANGED <<now, engineVars, callVars, tracker_is_running,
                   monitor_task, books, cycles, api>>

\* _close_position: trader.close_position() returns or raises; then the
\* *_triggered counter of _check_position is bumped
task_close_return(t, res) ==
    /\ Resumes(t)
    /\ tasks[t].pc = "close"
    /\ LET task == tasks[t]
           position == Head(task.positions)
           trader == TrackerTraders[task.ti]
           nt == after_close(task, res)
           st1 == [stats EXCEPT !.auto_closed_positions =
                                   @ + (IF res = "success" THEN 1 ELSE 0)]
           st2 == CASE task.exit = "stop_loss" ->
                         [st1 EXCEPT !.stop_loss_triggered = @ + 1]
                    [] task.exit = "take_profit" ->
                         [st1 EXCEPT !.take_profit_triggered = @ + 1]
                    [] OTHER ->
                         [st1 EXCEPT !.time_limit_triggered = @ + 1]
       IN /\ TaskStep(t, nt)
          /\ stats' = Monitored(st2, nt)
          /\ books' = IF res = "success"
                      THEN [books EXCEPT ![trader] = RemoveTicker(@, position.ticker)]
                      ELSE books
    /\ last_op' = [name |-> "task_close_return",
                   eval |-> [task |-> t, result |-> res,
                             trader |-> TrackerTraders[tasks[t].ti],
                             ticker |-> Head(tasks[t].positions).ticker]]
    /\ UNCHANGED <<now, engineVars, callVars, tracker_is_running,
                   monitor_task, alerts, cycles, cycle_log, api>>

\* CancelledError reaches the task: _monitor_loop breaks
task_cancelled(t) ==
    /\ t \in 1..Len(tasks)
    /\ tasks[t].cancel
    /\ tasks[t].pc # "done"
    /\ cancellable(tasks[t].pc)
    /\ tasks' = [tasks EXCEPT ![t] = [NewTask EXCEPT !.pc = "done",
                     !.cancel = TRUE, !.cancelled_at = tasks[t].pc]]
    /\ last_op' = Op("task_cancelled")
    /\ UNCHANGED <<now, engineVars, callVars, tracker_is_running,
                   monitor_task, books, alerts, stats, cycles, trader_calls,
                   cycle_log, api>>

\* PositionTracker.start
tracker_start ==
    /\ api.state # "stopping"
    /\ IF start_is_noop(tracker_is_running)
       THEN /\ last_op' = Op("tracker_start_noop")
            /\ UNCHANGED <<tracker_is_running, tasks, monitor_task, api>>
       ELSE /\ Len(tasks) < MaxTasks
            /\ tracker_is_running' = TRUE
            /\ tasks' = Append(tasks, NewTask)
            /\ monitor_task' = Len(tasks) + 1
            /\ api' = [api EXCEPT !.state = "idle"]
            /\ last_op' = Op("tracker_start")
    /\ UNCHANGED <<now, engineVars, callVars, books, alerts, stats, cycles,
                   trader_calls, cycle_log>>

\* PositionTracker.stop up to await self.monitor_task
tracker_stop ==
    /\ api.state # "stopping"
    /\ tracker_is_running' = FALSE
    /\ tasks' = IF monitor_task # 0 /\ tasks[monitor_task].pc # "done"
                THEN [tasks EXCEPT ![monitor_task].cancel = TRUE]
                ELSE tasks
    /\ api' = [state |-> "stopping", calls_at_stop |-> trader_calls,
               pc_at_stop |-> IF monitor_task = 0 THEN "none"
                              ELSE tasks[monitor_task].pc]
    /\ last_op' = Op("tracker_stop")
    /\ UNCHANGED <<now, engineVars, callVars, monitor_task, books, alerts,
                   stats, cycles, trader_calls, cycle_log>>

\* PositionTracker.stop returns
tracker_stop_return ==
    /\ api.state = "stopping"
    /\ stop_await_done(monitor_task)
    /\ api' = [api EXCEPT !.state = "stopped"]
    /\ last_op' = Op("tracker_stop_return")
    /\ UNCHANGED <<now, engineVars, callVars, tracker_is_running, monitor_task,
                   tasks, books, alerts, stats, cycles, trader_calls, cycle_log>>

\* ------------------------------------------------- check_trade on its own
RiskInputs ==
    [account : [total_equity : {700000},
                available_cash : {50000, 100000, 600000},
                total_position_value : {100000, 300000},
                num_positions : {1, 4},
                open_tickers : {{"GOLD"}},
                daily_pnl : {-10000, -100000, -100001}],
     ticker : Tickers,
     signal : {Sig("BUY", 85, 90, {"sentiment"}), Sig("SELL", 0, 80, {"sentiment"})},
     proposed_size : {30000, 100000, 600000}]

DefaultRiskInput ==
    [account |-> get_account_summary, ticker |-> "BTC",
     signal |-> Sig("BUY", 85, 90, {"sentiment"}), proposed_size |-> 100000]

NoResult == [approved |-> FALSE, approved_size |-> 0, stop_loss |-> None,
             take_profit |-> None, max_loss |-> 0, reason |-> "pending"]

\* one call of RiskManager.check_trade
risk_check_trade ==
    /\ rc_out = NoResult
    /\ rc_out' = check_trade(rc_in.account, rc_in.ticker, rc_in.signal,
                             rc_in.proposed_size)
    /\ last_op' = Op("risk_check_trade")
    /\ UNCHANGED <<now, rc_in, aggVars, catalogVars, extraVars, engineVars,
                   trackerVars>>

\* the next call's arguments
risk_next_input ==
    /\ rc_out # NoResult
    /\ rc_in' \in RiskInputs
    /\ rc_out' = NoResult
    /\ last_op' = Op("risk_next_input")
    /\ UNCHANGED <<now, aggVars, catalogVars, extraVars, engineVars, trackerVars>>

\* ------------------------------------------ _calculate_stop_loss on its own
\* configurations with min_stop_loss_pct <= max_stop_loss_pct, signal
\* strengths in [0,1] and reference prices
StopPcts == {0, 5, 12, 100}
StopStrengths == {0, 1, 50, 85, 99, 100}
StopInputs ==
    { in \in [min_pct : StopPcts, max_pct : StopPcts,
              signal_type : {"BUY", "SELL"}, strength : StopStrengths,
              current_price : {reference_price}] :
         in.min_pct <= in.max_pct }

NoStop == [stop_pct |-> None, stop_loss |-> None]

InitStopVars ==
    /\ stop_in = [min_pct |-> min_stop_loss_pct, max_pct |-> max_stop_loss_pct,
                  signal_type |-> "BUY", strength |-> 85,
                  current_price |-> reference_price]
    /\ stop_out = NoStop

\* one call of RiskManager._calculate_stop_loss by a RiskManager configured
\* with stop_in.min_pct and stop_in.max_pct
calculate_stop_loss_call ==
    /\ stop_out = NoStop
    /\ LET stop_pct == stop_pct_of(stop_in.min_pct, stop_in.max_pct,
                                   stop_in.strength)
           d == (stop_in.current_price \div 10000) * stop_pct
       IN stop_out' = [stop_pct |-> stop_pct,
                       stop_loss |-> IF stop_in.signal_type = "BUY"
                                     THEN stop_in.current_price - d
                                     ELSE stop_in.current_price + d]
    /\ last_op' = Op("calculate_stop_loss")
    /\ UNCHANGED <<now, stop_in, venueVars, deskVars, riskVars, aggVars, catalogVars,
                   engineVars, trackerVars>>

\* the next call's configuration and arguments
stop_next_input ==
    /\ stop_out # NoStop
    /\ stop_in' \in StopInputs
    /\ stop_out' = NoStop
    /\ last_op' = Op("stop_next_input")
    /\ UNCHANGED <<now, venueVars, deskVars, riskVars, aggVars, catalogVars, engineVars,
                   trackerVars>>

\* ================================================================ Traders
\* OrderResult: success, status and the message
OrderResult(success, status, message) ==
    [success |-> success, status |-> status, message |-> message]

\* what one place_order call did: the OrderResult it returned (or the
\* exception it raised) and the orders it handed to the venue's client
Placed(result, raised, sent) == [result |-> result, raised |-> raised, sent |-> sent]

NoOrderResult == OrderResult(FALSE, "NONE", "")

\* BaseTrader.validate_order: (is_valid, error_message)
validate_order(order) ==
    IF order.size <= 0 THEN <<FALSE, "Order size must be positive">>
    ELSE IF order.order_type = "LIMIT" /\ order.price = None
    THEN <<FALSE, "LIMIT order requires price">>
    ELSE <<TRUE, "">>

\* dYdXTrader.place_order.  trader.wallet is "unset" while the attribute has
\* never been assigned (connect() with an address only).  env is what the
\* venue answers: found (market info), price (get_current_price) and venue,
\* the fate of a submitted order ("filled", "pending" or "failed")
dydx_place_order(trader, order, env) ==
    IF ~trader.is_connected
    THEN Placed(OrderResult(FALSE, "REJECTED", "Not connected or no wallet"),
                "none", <<>>)
    ELSE IF trader.wallet = "unset"
    THEN Placed(NoOrderResult, "AttributeError", <<>>)
    ELSE LET valid == validate_order(order) IN
    IF ~valid[1]
    THEN Placed(OrderResult(FALSE, "REJECTED", valid[2]), "none", <<>>)
    ELSE IF ~env.found
    THEN Placed(OrderResult(FALSE, "REJECTED", "Market not found"), "none", <<>>)
    ELSE IF env.price = 0
    THEN Placed(OrderResult(FALSE, "REJECTED", "ZeroDivisionError"), "none", <<>>)
    ELSE IF order.order_type # "MARKET"
    THEN Placed(OrderResult(FALSE, "REJECTED", "AttributeError"), "none", <<>>)
    ELSE IF env.venue = "failed"
    THEN Placed(OrderResult(FALSE, "REJECTED", "Transaction failed"), "none",
                <<order>>)
    ELSE IF env.venue = "filled"
    THEN Placed(OrderResult(TRUE, "FILLED", "Filled"), "none", <<order>>)
    ELSE Placed(OrderResult(TRUE, "PENDING", "Order submitted, status unknown"),
                "none", <<order>>)

\* IBKRTrader.place_order: env.found is the answer of qualifyContracts
ibkr_place_order(trader, order, env) ==
    IF ~trader.is_connected
    THEN Placed(OrderResult(FALSE, "REJECTED", "Not connected to IBKR"),
                "none", <<>>)
    ELSE IF ~env.found
    THEN Placed(OrderResult(FALSE, "REJECTED", "Contract not found"), "none", <<>>)
    ELSE IF order.order_type \notin {"MARKET", "LIMIT"}
    THEN Placed(OrderResult(FALSE, "REJECTED", "Unsupported order type"),
                "none", <<>>)
    ELSE IF env.venue = "filled"
    THEN Placed(OrderResult(TRUE, "FILLED", "Filled"), "none", <<order>>)
    ELSE IF env.venue = "pending"
    THEN Placed(OrderResult(FALSE, "REJECTED", "Order timeout"), "none", <<order>>)
    ELSE Placed(OrderResult(FALSE, "REJECTED", "Order status"), "none", <<order>>)

\* trader.place_order(order) of the Trader registered as platform
place_order(platform, trader, order, env) ==
    IF platform = "dydx" THEN dydx_place_order(trader, order, env)
    ELSE ibkr_place_order(trader, order, env)

\* connect(): dYdXTrader sets is_connected on success and assigns the wallet
\* only when a mnemonic is configured; IBKRTrader clears is_connected when
\* ib.connect raises
connect(platform, trader, outcome) ==
    IF platform = "dydx"
    THEN CASE outcome = "ok" -> [trader EXCEPT !.is_connected = TRUE, !.wallet = "set"]
           [] outcome = "ok_address_only" -> [trader EXCEPT !.is_connected = TRUE]
           [] OTHER -> trader
    ELSE CASE outcome \in {"ok", "ok_address_only"} -> [trader EXCEPT !.is_connected = TRUE]
           [] outcome = "raise" -> [trader EXCEPT !.is_connected = FALSE]
           [] OTHER -> trader

\* ------------------------------------------------------- trader actions
\* submitted counts the orders handed to the venue's client
NewTrader == [is_connected |-> FALSE, wallet |-> "unset", submitted |-> 0]

Order(size, order_type, price) ==
    [ticker |-> "BTC", side |-> "BUY", size |-> size, order_type |-> order_type,
     price |-> price, stop_loss |-> None, take_profit |-> None]

OrderChoices ==
    { Order(size, ty, price) :
        size \in {0 - 100, 0, 80000},
        ty \in {"MARKET", "LIMIT", "STOP_LOSS"},
        price \in {None, 100} }

VenueEnvs == [found : BOOLEAN, price : {0, 100}, venue : {"filled", "pending", "failed"}]

NoPlace ==
    [platform |-> "", order |-> Order(0, "MARKET", None),
     result |-> NoOrderResult, raised |-> "none", sent |-> 0,
     connected |-> FALSE]

InitVenueVars ==
    /\ venue = [p \in Platforms |-> NewTrader]
    /\ po = NoPlace

\* await trader.connect()
trader_connect(platform, outcome) ==
    /\ venue' = [venue EXCEPT ![platform] = connect(platform, @, outcome)]
    /\ po' = NoPlace
    /\ last_op' = Op("trader_connect")
    /\ UNCHANGED <<now, stopVars, deskVars, riskVars, aggVars, catalogVars, engineVars,
                   trackerVars>>

\* await trader.disconnect()
trader_disconnect(platform) ==
    /\ venue[platform].is_connected
    /\ venue' = [venue EXCEPT ![platform].is_connected = FALSE]
    /\ po' = NoPlace
    /\ last_op' = Op("trader_disconnect")
    /\ UNCHANGED <<now, stopVars, deskVars, riskVars, aggVars, catalogVars, engineVars,
                   trackerVars>>

\* one whole call of trader.place_order(order)
place_order_call(platform, order, env) ==
    /\ venue[platform].submitted < MaxSubmitted
    /\ LET r == place_order(platform, venue[platform], order, env) IN
          /\ venue' = [venue EXCEPT ![platform].submitted = @ + Len(r.sent)]
          /\ po' = [platform |-> platform, order |-> order,
                    result |-> r.result, raised |-> r.raised,
                    sent |-> Len(r.sent),
                    connected |-> venue[platform].is_connected]
    /\ last_op' = Op("place_order")
    /\ UNCHANGED <<now, stopVars, deskVars, riskVars, aggVars, catalogVars, engineVars,
                   trackerVars>>

\* ====================================================== SignalAggregator
\* strength and confidence are in tenths, weights in twentieths; a float the
\* aggregator computes is the exact fraction n / d, d > 0
Rat(n, d) == [n |-> n, d |-> d]
RatEq(a, b) == a.n * b.d = b.n * a.d
RatLe(a, b) == a.n * b.d <= b.n * a.d
RatLt(a, b) == a.n * b.d < b.n * a.d

RECURSIVE SeqSum(_)
SeqSum(s) == IF s = <<>> THEN 0 ELSE Head(s) + SeqSum(Tail(s))

\* Signal; weight defaults to 1.0 and source names the source that made it
Signal(ty, st, cf) ==
    [signal_type |-> ty, strength |-> st, confidence |-> cf, weight |-> 20,
     source |-> 0]

\* a registered source: its entry in self.weights and what get_signal does
Source(w, raises, sig) == [weight |-> w, raises |-> raises, signal |-> sig]

\* source.get_signal(ticker, timeframe) of the i-th registered source
get_signal(sources, i) == [sources[i].signal EXCEPT !.source = i]

\* aggregate, lines 60-70: the loop over self.signal_sources.items()
RECURSIVE collect_signals_abort(_, _)
collect_signals_abort(sources, i) ==
    IF i > Len(sources) THEN <<>>
    ELSE IF sources[i].raises THEN <<>>
    ELSE <<[get_signal(sources, i) EXCEPT !.weight = sources[i].weight]>>
             \o collect_signals_abort(sources, i + 1)

RECURSIVE collect_signals(_, _)
collect_signals(sources, i) ==
    IF i > Len(sources) THEN <<>>
    ELSE IF sources[i].raises THEN collect_signals(sources, i + 1)
    ELSE <<[get_signal(sources, i) EXCEPT !.weight = sources[i].weight]>>
             \o collect_signals(sources, i + 1)

\* AggregatedSignal
AggregatedSignal(ty, strength, confidence, signals, final_score) ==
    [raised |-> "none", signal_type |-> ty, strength |-> strength,
     confidence |-> confidence, contributing_signals |-> signals,
     final_score |-> final_score]

\* AggregatedSignal.neutral
neutral ==
    AggregatedSignal("NEUTRAL", Rat(0, 1), Rat(1, 2), <<>>, Rat(1, 2))

\* an exception that leaves aggregate
AggregateRaised(exc) ==
    [raised |-> exc, signal_type |-> "NEUTRAL", strength |-> Rat(0, 1),
     confidence |-> Rat(0, 1), contributing_signals |-> <<>>,
     final_score |-> Rat(0, 1)]

\* the directional value of a signal, in twentieths: BUY above 0.5, SELL
\* below, anything else 0.5
base_score(signal) ==
    IF signal.signal_type = "BUY" THEN 10 + signal.strength
    ELSE IF signal.signal_type = "SELL" THEN 10 - signal.strength
    ELSE 10

\* _calculate_consistency, lines 240-256: max(0, 1 - variance * 4)
consistency_of_confidences(signals) ==
    LET N == Len(signals)
        sv == SeqSum([i \in 1..N |-> signals[i].confidence])
        sv2 == SeqSum([i \in 1..N |-> signals[i].confidence * signals[i].confidence])
        varnum == N * sv2 - sv * sv
    IN Rat(Max(0, 25 * N * N - varnum), 25 * N * N)

consistency(signals) ==
    LET N == Len(signals)
        sv == SeqSum([i \in 1..N |-> base_score(signals[i])])
        sv2 == SeqSum([i \in 1..N |-> base_score(signals[i]) * base_score(signals[i])])
        varnum == N * sv2 - sv * sv
    IN Rat(Max(0, 100 * N * N - varnum), 100 * N * N)

\* _calculate_consistency
calculate_consistency(signals) ==
    IF Len(signals) = 0 THEN Rat(1, 2)
    ELSE IF Len(signals) = 1 THEN Rat(signals[1].confidence, 10)
    ELSE LET N == Len(signals)
             c == consistency(signals)
             sc == SeqSum([i \in 1..N |-> signals[i].confidence])
         IN Rat(c.n * sc, c.d * 10 * N)

\* _weighted_average, lines 99-122: the final score
final_score_of_mean(signals) ==
    LET N == Len(signals)
        weighted_scores == [i \in 1..N |->
            base_score(signals[i]) * signals[i].confidence * signals[i].weight]
    IN IF N = 0 THEN Rat(1, 2) ELSE Rat(SeqSum(weighted_scores), 4000 * N)

final_score_of(signals) ==
    LET N == Len(signals)
        weighted_scores == [i \in 1..N |->
            base_score(signals[i]) * signals[i].confidence * signals[i].weight]
        total_weight == SeqSum([i \in 1..N |-> signals[i].weight])
    IN IF total_weight = 0 THEN Rat(1, 2)
       ELSE Rat(SeqSum(weighted_scores), 200 * total_weight)

\* _weighted_average, lines 124-133: direction and strength
direction_of_no_sell(final_score) ==
    IF RatLe(Rat(13, 20), final_score)
    THEN [signal_type |-> "BUY",
          strength |-> Rat(2 * final_score.n - final_score.d, final_score.d)]
    ELSE [signal_type |-> "NEUTRAL", strength |-> Rat(0, 1)]

direction_of_strict(final_score) ==
    IF RatLt(Rat(13, 20), final_score)
    THEN [signal_type |-> "BUY",
          strength |-> Rat(2 * final_score.n - final_score.d, final_score.d)]
    ELSE IF RatLt(final_score, Rat(7, 20))
    THEN [signal_type |-> "SELL",
          strength |-> Rat(final_score.d - 2 * final_score.n, final_score.d)]
    ELSE [signal_type |-> "NEUTRAL", strength |-> Rat(0, 1)]

direction_of(final_score) ==
    IF RatLe(Rat(13, 20), final_score)
    THEN [signal_type |-> "BUY",
          strength |-> Rat(2 * final_score.n - final_score.d, final_score.d)]
    ELSE IF RatLe(final_score, Rat(7, 20))
    THEN [signal_type |-> "SELL",
          strength |-> Rat(final_score.d - 2 * final_score.n, final_score.d)]
    ELSE [signal_type |-> "NEUTRAL", strength |-> Rat(0, 1)]

\* SignalAggregator._weighted_average
weighted_average(signals) ==
    LET final_score == final_score_of(signals)
        dir == direction_of(final_score)
    IN AggregatedSignal(dir.signal_type, dir.strength,
                        calculate_consistency(signals), signals, final_score)

\* SignalAggregator._majority_vote: the votes dict has the keys BUY, SELL and
\* NEUTRAL only, and max() keeps the first of equal totals
VoteTypes == <<"BUY", "SELL", "NEUTRAL">>

majority_vote(signals) ==
    LET N == Len(signals)
        votes == [k \in 1..3 |->
                    SeqSum([i \in 1..N |->
                        IF signals[i].signal_type = VoteTypes[k]
                        THEN signals[i].weight ELSE 0])]
        winner == CHOOSE k \in 1..3 :
                     /\ \A j \in 1..3 : votes[j] <= votes[k]
                     /\ \A j \in 1..(k - 1) : votes[j] < votes[k]
        total_votes == votes[1] + votes[2] + votes[3]
        strength == IF total_votes > 0 THEN Rat(votes[winner], total_votes)
                    ELSE Rat(0, 1)
    IN IF \E i \in 1..N : signals[i].signal_type \notin {"BUY", "SELL", "NEUTRAL"}
       THEN AggregateRaised("KeyError")
       ELSE AggregatedSignal(VoteTypes[winner], strength,
                             calculate_consistency(signals), signals, strength)

\* SignalAggregator._priority: sorted() is stable, so the first signal of
\* the highest confidence is on top
priority(signals) ==
    LET N == Len(signals)
        top == CHOOSE k \in 1..N :
                  /\ \A j \in 1..N : signals[j].confidence <= signals[k].confidence
                  /\ \A j \in 1..(k - 1) : signals[j].confidence < signals[k].confidence
        top_signal == signals[top]
    IN AggregatedSignal(top_signal.signal_type, Rat(top_signal.strength, 10),
                        Rat(top_signal.confidence, 10), signals,
                        Rat(top_signal.strength * top_signal.confidence, 100))

\* SignalAggregator.aggregate
aggregate(conflict_resolution, sources) ==
    LET signals == collect_signals(sources, 1) IN
    IF signals = <<>> THEN neutral
    ELSE IF conflict_resolution = "weighted_average" THEN weighted_average(signals)
    ELSE IF conflict_resolution = "majority_vote" THEN majority_vote(signals)
    ELSE IF conflict_resolution = "priority" THEN priority(signals)
    ELSE AggregateRaised("ValueError")

\* ------------------------------------------------- aggregator actions
SourceChoices ==
    { Source(7, FALSE, Signal("BUY", 8, 9)),
      Source(7, FALSE, Signal("BUY", 9, 8)),
      Source(3, FALSE, Signal("NEUTRAL", 0, 5)),
      Source(20, FALSE, Signal("BUY", 8, 9)),
      Source(7, FALSE, Signal("SELL", 8, 9)),
      Source(20, FALSE, Signal("BUY", 3, 10)),
      Source(20, FALSE, Signal("SELL", 3, 10)),
      Source(20, FALSE, Signal("BUY", 3, 5)),
      Source(0, FALSE, Signal("BUY", 5, 0)),
      Source(0, FALSE, Signal("SELL", 5, 0)),
      Source(20, FALSE, Signal("CLOSE", 5, 5)),
      Source(20, TRUE, Signal("NEUTRAL", 0, 0)) }

Policies == {"weighted_average", "majority_vote", "priority"}

NoAggResult == AggregateRaised("pending")

InitAggVars ==
    /\ agg_in = [conflict_resolution |-> "weighted_average", sources |-> <<>>]
    /\ agg_out = NoAggResult

\* SignalAggregator.register_source, under a name not registered before
register_source(source) ==
    /\ Len(agg_in.sources) < MaxSources
    /\ agg_in' = [agg_in EXCEPT !.sources = Append(@, source)]
    /\ agg_out' = NoAggResult
    /\ last_op' = Op("register_source")
    /\ UNCHANGED <<now, riskVars, catalogVars, extraVars, engineVars, trackerVars>>

\* one call of SignalAggregator.aggregate
aggregate_call ==
    /\ agg_out = NoAggResult
    /\ agg_out' = aggregate(agg_in.conflict_resolution, agg_in.sources)
    /\ last_op' = Op("aggregate")
    /\ UNCHANGED <<now, agg_in, riskVars, catalogVars, extraVars, engineVars,
                   trackerVars>>

\* --------------------------------------------------- catalog actions
Strategy(name, required, allowed) ==
    [name |-> name, min_confidence |-> 70, min_strength |-> 60,
     required_signal_sources |-> required, max_hold_hours |-> 72,
     base_position_size |-> 80000, sizing_method |-> "fixed",
     max_trades_per_day |-> 2, min_signal_gap_hours |-> 6,
     allowed_asset_types |-> allowed]

StrategyChoices ==
    { Strategy("sentiment_short", {"sentiment"}, {"stock"}),
      Strategy("options_flow", {}, {"option", "crypto"}),
      Strategy("technical_only", {"technical"}, {"crypto"}) }

NoSelect ==
    [signal_sources |-> {}, asset_type |-> "", result |-> NoStrategy,
     calls |-> 0]

InitCatalogVars ==
    /\ catalog = strategies
    /\ selected = NoSelect

\* StrategyManager.register_strategy
register_strategy(strategy) ==
    /\ LET cat == register_strategy_in(catalog, strategy) IN
          /\ Len(cat) <= MaxCatalog
          /\ catalog' = cat
    /\ selected' = NoSelect
    /\ last_op' = Op("register_strategy")
    /\ UNCHANGED <<now, riskVars, aggVars, extraVars, engineVars, trackerVars>>

\* one call of StrategyManager.select_strategy
select_strategy_call(signal_sources, asset_type) ==
    /\ selected.calls < MaxSelects
    /\ selected' = [signal_sources |-> signal_sources,
                    asset_type |-> asset_type,
                    result |-> select_from(catalog, signal_sources, asset_type),
                    calls |-> selected.calls + 1]
    /\ last_op' = Op("select_strategy")
    /\ UNCHANGED <<now, catalog, riskVars, aggVars, extraVars, engineVars,
                   trackerVars>>

\* ============================================ the engine and its traders
\* process_ticker as the coroutine it is: it runs from one await to the next,
\* and another coroutine of the event loop may run while it is suspended.
\* get_position and place_order await the venue; check_trade and
\* _get_account_summary are coroutines without an await of their own, so
\* awaiting them does not suspend.
Calls == {1, 2}

NoPt ==
    [pc |-> "idle", ticker |-> "", asset_type |-> "", platform |-> "",
     signal |-> Sig("NEUTRAL", 0, 50, {}), strategy |-> NoStrategy,
     risk |-> NoRisk]

InitDeskVars ==
    pt = [c \in Calls |-> NoPt]

engineRest == <<engine_is_running, traders, last_call, last_failed, unavailable>>
trackerRest == <<tracker_is_running, monitor_task, tasks, alerts, stats,
                 cycles, trader_calls, cycle_log, api>>
deskFrame == <<riskVars, aggVars, catalogVars, stopVars, venueVars,
               engineRest, trackerRest>>

\* Trader.get_position: the position of the ticker in the trader's book
holds(book, ticker) ==
    \E i \in 1..Len(book) : book[i].ticker = ticker

\* a filled order at the venue: a position of the ticker is opened, or the
\* fill is netted into the position the venue already holds for the ticker
fill(book, order, t) ==
    IF holds(book, order.ticker) THEN book
    ELSE Append(book, Pos(order.ticker,
                          IF order.side = "BUY" THEN "LONG" ELSE "SHORT",
                          None, None, t))

\* process_ticker, lines 117-158: steps 1-5 up to await trader.get_position
pt_begin(c, ticker, asset_type, agg) ==
    /\ pt[c].pc = "idle"
    /\ Len(trade_history) < MaxFills
    /\ LET strategy == select_strategy(agg.sources, asset_type)
           platform == select_platform(asset_type)
           goes_on == /\ engine_is_running
                      /\ strategy.name # "none"
                      /\ meets_strategy_criteria(agg, strategy)
                      /\ check_trade_frequency(trade_history, ticker, strategy, now)
                      /\ platform \in traders
       IN pt' = IF goes_on
                THEN [pt EXCEPT ![c] =
                        [pc |-> "get_position", ticker |-> ticker,
                         asset_type |-> asset_type, platform |-> platform,
                         signal |-> agg, strategy |-> strategy,
                         risk |-> NoRisk]]
                ELSE pt
    /\ last_op' = Op("pt_begin")
    /\ UNCHANGED <<now, trade_history, books, deskFrame>>

\* process_ticker, lines 158-178 and _execute_trade up to line 314:
\* get_position returns; steps 6-7 and the Order, up to await place_order
pt_get_position_return(c) ==
    /\ pt[c].pc = "get_position"
    /\ LET p == pt[c]
           existing_position == holds(books[p.platform], p.ticker)
           proposed_size == calculate_position_size(p.signal, p.strategy)
           risk_check == check_trade(get_account_summary, p.ticker, p.signal,
                                     proposed_size)
       IN pt' = IF existing_position \/ ~risk_check.approved
                THEN [pt EXCEPT ![c] = NoPt]
                ELSE [pt EXCEPT ![c].pc = "place_order",
                                ![c].risk = risk_check]
    /\ last_op' = Op("pt_get_position_return")
    /\ UNCHANGED <<now, trade_history, books, deskFrame>>

\* _execute_trade, lines 314-336: place_order returns or raises; a fill is
\* appended to trade_history with datetime.now()
pt_place_order_return(c, place) ==
    /\ pt[c].pc = "place_order"
    /\ LET p == pt[c]
           ex == execute_trade(p.ticker, p.signal, p.strategy, p.risk,
                               p.platform, place, now)
       IN /\ trade_history' = trade_history \o ex.appended
          /\ books' = IF place = "filled"
                      THEN [books EXCEPT ![p.platform] = fill(@, ex.order, now)]
                      ELSE books
    /\ pt' = [pt EXCEPT ![c] = NoPt]
    /\ last_op' = Op("pt_place_order_return")
    /\ UNCHANGED <<now, deskFrame>>

\* PositionTracker._close_position with a successful close_position
tracker_close(platform, ticker) ==
    /\ holds(books[platform], ticker)
    /\ books' = [books EXCEPT ![platform] = RemoveTicker(@, ticker)]
    /\ last_op' = Op("tracker_close")
    /\ UNCHANGED <<now, trade_history, pt, deskFrame>>

\* a day passes while no process_ticker call is in flight
desk_tick ==
    /\ \A c \in Calls : pt[c].pc = "idle"
    /\ now + 24 <= MaxDeskTime
    /\ now' = now + 24
    /\ last_op' = Op("desk_tick")
    /\ UNCHANGED <<trade_history, books, pt, deskFrame>>

DeskTickers == {"BTC", "ETH", "SOL"}
DeskSignals ==
    { Sig("BUY", 85, 90, {"sentiment"}) }

\* --------------------------------------------------------- specifications
InitRiskVars ==
    /\ rc_in = DefaultRiskInput
    /\ rc_out = NoResult

InitExtraVars ==
    /\ InitStopVars
    /\ InitVenueVars
    /\ InitDeskVars

PA(tk) == Pos(tk, "LONG", 92, 110, 0)
PB(tk) == Pos(tk, "SHORT", 110, 92, 0)
PC(tk) == Pos(tk, "LONG", None, None, 0 - 168)
PD(tk) == Pos(tk, "LONG", 93, 93, 0 - 200)
PE(tk) == Pos(tk, "LONG", None, 110, 0 - 200)
PF(tk) == Pos(tk, "SHORT", None, None, 0 - 169)

BookChoices ==
    { [dydx |-> <<>>, ibkr |-> <<>>],
      [dydx |-> <<PA("BTC")>>, ibkr |-> <<PB("AAPL")>>],
      [dydx |-> <<PD("BTC"), PC("ETH")>>, ibkr |-> <<>>],
      [dydx |-> <<PE("BTC")>>, ibkr |-> <<PF("AAPL")>>] }

NoBooks == [dydx |-> <<>>, ibkr |-> <<>>]

InitEngineVars ==
    /\ engine_is_running = FALSE
    /\ traders = {}
    /\ trade_history = <<>>
    /\ last_call = NoCall
    /\ last_failed = ""
    /\ unavailable = {}

InitTrackerVars ==
    /\ tracker_is_running = FALSE
    /\ monitor_task = 0
    /\ tasks = <<>>
    /\ alerts = <<>>
    /\ stats = InitStats
    /\ cycles = 0
    /\ trader_calls = 0
    /\ cycle_log = <<>>
    /\ api = [state |-> "idle", calls_at_stop |-> 0, pc_at_stop |-> "none"]

Init ==
    /\ now = 0
    /\ last_op = Op("init")
    /\ InitEngineVars
    /\ InitTrackerVars
    /\ books = NoBooks
    /\ InitRiskVars
    /\ InitAggVars
    /\ InitCatalogVars
    /\ InitExtraVars

Next ==
    \/ \E p \in Platforms : register_trader(p)
    \/ engine_start({})
    \/ engine_stop
    \/ \E tk \in Tickers, a \in AssetTypes, agg \in SignalChoices,
          env \in EnvChoices :
          process_ticker(tk, a, agg, env.exc, env.has_position, env.place)
    \/ process_ticker_return
    \/ tick

Spec == Init /\ [][Next]_vars

\* the engine with traders whose connect() fails in start(): no action reads
\* unavailable, so Spec explores the runs in which every connect() succeeds
\* and this specification the other outcomes, on fewer inputs
ConnectSignals == {Sig("BUY", 85, 90, {"sentiment"}), Sig("BUY", 69, 90, {"sentiment"})}
ConnectEnvs == {Env("none", FALSE, "filled"), Env("none", FALSE, "rejected")}

NextConnect ==
    \/ \E p \in Platforms : register_trader(p)
    \/ \E failed \in SUBSET Platforms : engine_start(failed)
    \/ engine_stop
    \/ \E tk \in {"BTC", "GOLD"}, a \in AssetTypes, agg \in ConnectSignals,
          env \in ConnectEnvs :
          process_ticker(tk, a, agg, env.exc, env.has_position, env.place)
    \/ process_ticker_return
    \/ tick

SpecConnect == Init /\ [][NextConnect]_vars

InitTracker ==
    /\ now = 0
    /\ last_op = Op("init")
    /\ InitEngineVars
    /\ InitTrackerVars
    /\ books \in BookChoices
    /\ InitRiskVars
    /\ InitAggVars
    /\ InitCatalogVars
    /\ InitExtraVars

NextTracker ==
    \/ tracker_start
    \/ tracker_stop
    \/ tracker_stop_return
    \/ \E t \in 1..MaxTasks : task_start(t)
    \/ \E t \in 1..MaxTasks : task_wake(t)
    \/ \E t \in 1..MaxTasks, res \in {"ok", "raise"} : task_get_all_return(t, res)
    \/ \E t \in 1..MaxTasks, pr \in PriceChoices : task_price_return(t, FALSE, pr)
    \/ \E t \in 1..MaxTasks : task_price_return(t, TRUE, 0)
    \/ \E t \in 1..MaxTasks, res \in {"success", "fail", "raise"} :
          task_close_return(t, res)
    \/ \E t \in 1..MaxTasks : task_cancelled(t)

SpecTracker == InitTracker /\ [][NextTracker]_vars

\* the tracker is started and left running; the event loop resumes a task
\* whose await has completed
LiveBooks ==
    { [dydx |-> <<PD("BTC"), PC("ETH")>>, ibkr |-> <<PE("AAPL")>>],
      [dydx |-> <<PE("BTC")>>, ibkr |-> <<>>] }

InitTrackerLive ==
    /\ now = 0
    /\ last_op = Op("init")
    /\ InitEngineVars
    /\ InitTrackerVars
    /\ books \in LiveBooks
    /\ InitRiskVars
    /\ InitAggVars
    /\ InitCatalogVars
    /\ InitExtraVars

TaskProgress ==
    \/ \E t \in 1..MaxTasks : task_start(t)
    \/ \E t \in 1..MaxTasks : task_wake(t)
    \/ \E t \in 1..MaxTasks, res \in {"ok", "raise"} : task_get_all_return(t, res)
    \/ \E t \in 1..MaxTasks, pr \in PriceChoices : task_price_return(t, FALSE, pr)
    \/ \E t \in 1..MaxTasks : task_price_return(t, TRUE, 0)
    \/ \E t \in 1..MaxTasks, res \in {"success", "fail", "raise"} :
          task_close_return(t, res)

NextTrackerLive ==
    \/ tracker_start
    \/ TaskProgress

SpecTrackerLive ==
    InitTrackerLive /\ [][NextTrackerLive]_vars /\ WF_vars(TaskProgress)

InitRisk ==
    /\ now = 0
    /\ last_op = Op("init")
    /\ InitEngineVars
    /\ InitTrackerVars
    /\ books = NoBooks
    /\ rc_in \in RiskInputs
    /\ rc_out = NoResult
    /\ InitAggVars
    /\ InitCatalogVars
    /\ InitExtraVars

NextRisk ==
    \/ risk_check_trade
    \/ risk_next_input

SpecRisk == InitRisk /\ [][NextRisk]_vars

InitAgg ==
    /\ now = 0
    /\ last_op = Op("init")
    /\ InitEngineVars
    /\ InitTrackerVars
    /\ books = NoBooks
    /\ InitRiskVars
    /\ agg_in \in [conflict_resolution : Policies, sources : {<<>>}]
    /\ agg_out = NoAggResult
    /\ InitCatalogVars
    /\ InitExtraVars

NextAgg ==
    \/ \E source \in SourceChoices : register_source(source)
    \/ aggregate_call

SpecAgg == InitAgg /\ [][NextAgg]_vars

InitCatalog ==
    /\ now = 0
    /\ last_op = Op("init")
    /\ InitEngineVars
    /\ InitTrackerVars
    /\ books = NoBooks
    /\ InitRiskVars
    /\ InitAggVars
    /\ InitCatalogVars
    /\ InitExtraVars

NextCatalog ==
    \/ \E strategy \in StrategyChoices : register_strategy(strategy)
    \/ \E srcs \in SUBSET {"sentiment", "technical"},
          a \in {"crypto", "stock", "option"} : select_strategy_call(srcs, a)

SpecCatalog == InitCatalog /\ [][NextCatalog]_vars

InitStop ==
    /\ now = 0
    /\ last_op = Op("init")
    /\ InitEngineVars
    /\ InitTrackerVars
    /\ books = NoBooks
    /\ InitRiskVars
    /\ InitAggVars
    /\ InitCatalogVars
    /\ stop_in \in StopInputs
    /\ stop_out = NoStop
    /\ InitVenueVars
    /\ InitDeskVars

NextStop ==
    \/ calculate_stop_loss_call
    \/ stop_next_input

SpecStop == InitStop /\ [][NextStop]_vars

InitVenue ==
    /\ now = 0
    /\ last_op = Op("init")
    /\ InitEngineVars
    /\ InitTrackerVars
    /\ books = NoBooks
    /\ InitRiskVars
    /\ InitAggVars
    /\ InitCatalogVars
    /\ InitExtraVars

NextVenue ==
    \/ \E p \in Platforms, outcome \in {"ok", "ok_address_only", "failed", "raise"} :
          trader_connect(p, outcome)
    \/ \E p \in Platforms : trader_disconnect(p)
    \/ \E p \in Platforms, order \in OrderChoices, env \in VenueEnvs :
          place_order_call(p, order, env)

SpecVenue == InitVenue /\ [][NextVenue]_vars

\* the engine after register_trader for both platforms and start(), with
\* empty books; process_ticker calls are made one after the other
InitDesk ==
    /\ now = 0
    /\ last_op = Op("init")
    /\ engine_is_running = TRUE
    /\ traders = Platforms
    /\ trade_history = <<>>
    /\ last_call = NoCall
    /\ last_failed = ""
    /\ unavailable = {}
    /\ InitTrackerVars
    /\ books = NoBooks
    /\ InitRiskVars
    /\ InitAggVars
    /\ InitCatalogVars
    /\ InitExtraVars

NextDesk ==
    \/ \E tk \in DeskTickers, a \in AssetTypes, agg \in DeskSignals :
          pt_begin(1, tk, a, agg)
    \/ pt_get_position_return(1)
    \/ \E place \in {"filled", "rejected", "raise"} : pt_place_order_return(1, place)
    \/ \E p \in Platforms, tk \in DeskTickers : tracker_close(p, tk)
    \/ desk_tick

SpecDesk == InitDesk /\ [][NextDesk]_vars

\* the same engine with two process_ticker calls in flight
NextDeskInterleaved ==
    \/ \E c \in Calls, tk \in {"BTC", "ETH"}, agg \in DeskSignals :
          pt_begin(c, tk, "crypto", agg)
    \/ \E c \in Calls : pt_get_position_return(c)
    \/ \E c \in Calls, place \in {"filled", "rejected", "raise"} :
          pt_place_order_return(c, place)
    \/ \E tk \in {"BTC", "ETH"} : tracker_close("dydx", tk)
    \/ desk_tick

SpecDeskInterleaved == InitDesk /\ [][NextDeskInterleaved]_vars

\* ================================================================ claims
StrategyIndex(name) == CHOOSE i \in 1..Len(strategies) : strategies[i].name = name
AllGates == <<"running", "strategy", "criteria", "frequency", "trader",
              "position", "risk">>

\* the strategy of the call is the first registered one that is eligible
StrategyGateHolds(c) ==
    /\ c.strategy # "none"
    /\ LET i == StrategyIndex(c.strategy) IN
          /\ c.asset_type \in strategies[i].allowed_asset_types
          /\ strategies[i].required_signal_sources \subseteq c.signal.sources
          /\ \A j \in 1..(i - 1) :
                ~(/\ c.asset_type \in strategies[j].allowed_asset_types
                  /\ strategies[j].required_signal_sources \subseteq c.signal.sources)

CriteriaGateHolds(c) ==
    LET st == strategies[StrategyIndex(c.strategy)] IN
    /\ c.signal.signal_type # "NEUTRAL"
    /\ c.signal.confidence >= st.min_confidence
    /\ c.signal.strength >= st.min_strength

\* entries of the log dated the day of the call, over all tickers
TodayCount(c) ==
    Cardinality({i \in 1..c.hist_len :
                    trade_history[i].timestamp \div 24 = c.time \div 24})

\* every entry of the ticker is at least the gap old
GapHolds(c) ==
    LET st == strategies[StrategyIndex(c.strategy)] IN
    \A i \in 1..c.hist_len :
        trade_history[i].ticker = c.ticker
            => c.time - trade_history[i].timestamp >= st.min_signal_gap_hours

FrequencyGateHolds(c) ==
    /\ TodayCount(c) < strategies[StrategyIndex(c.strategy)].max_trades_per_day
    /\ GapHolds(c)

\* C1: process_ticker places at most one order per call, and only after the
\* gates passed in order: engine running, strategy selected, signal not
\* NEUTRAL and at or above the strategy's thresholds, frequency check,
\* no position reported by the selected trader, risk check approved.
C1_OrderOnlyAfterAllGates ==
    /\ last_call.placed <= 1
    /\ last_call.placed = 1 =>
          /\ last_call.gates = AllGates
          /\ engine_is_running
          /\ StrategyGateHolds(last_call)
          /\ CriteriaGateHolds(last_call)
          /\ select_platform(last_call.asset_type) \in traders
          /\ last_call.order.platform = select_platform(last_call.asset_type)
          /\ ~last_call.has_position
          /\ last_call.risk.approved
    /\ last_call.gates # AllGates => last_call.placed = 0

C1_Witness ==
    /\ last_call.placed = 1
    /\ last_call.place = "filled"
    /\ last_call.signal.signal_type = "SELL"

\* C2: an order is submitted only if fewer than max_trades_per_day log
\* entries are dated today (all tickers, all strategies) and every earlier
\* entry of the ticker is at least min_signal_gap_hours old.
C2_OrderOnlyWithinFrequency ==
    last_call.placed = 1 => FrequencyGateHolds(last_call)

C2_Witness ==
    /\ last_call.placed = 1
    /\ TodayCount(last_call) = 1
    /\ \E i \in 1..last_call.hist_len :
          /\ trade_history[i].ticker = last_call.ticker
          /\ last_call.time - trade_history[i].timestamp = 12
    /\ last_call.strategy = "sentiment_swing"

\* the checks of check_trade that fail on an input, by number
FailingChecks(in) ==
    { k \in 1..6 :
        \/ k = 1 /\ in.account.available_cash < in.proposed_size
        \/ k = 2 /\ in.account.num_positions >= max_open_positions
        \/ k = 3 /\ in.proposed_size * max_loss_per_trade_pct
                       > max_risk_per_trade * 100
        \/ k = 4 /\ (in.account.total_position_value + in.proposed_size) * 100
                       > in.account.total_equity * max_total_exposure_pct
        \/ k = 5 /\ in.ticker \in in.account.open_tickers
        \/ k = 6 /\ in.account.daily_pnl < 0 - daily_loss_limit }

ReasonOfCheck ==
    <<"cash", "positions", "risk", "exposure", "held", "daily_loss">>

\* C3: check_trade approves iff none of the six checks fails, and a
\* rejection cites the lowest-numbered failing check.
C3_FirstFailingCheckDecides ==
    rc_out # NoResult =>
        LET fails == FailingChecks(rc_in) IN
        /\ rc_out.approved <=> fails = {}
        /\ fails # {} =>
              rc_out.reason =
                  ReasonOfCheck[CHOOSE k \in fails : \A j \in fails : k <= j]

C3_Witness ==
    /\ rc_out # NoResult
    /\ rc_in.proposed_size = 100000
    /\ rc_in.account.available_cash = 50000
    /\ rc_out.reason = "cash"
    /\ ~rc_out.approved

\* C4: a call in which a collaborator raised returns normally, leaves the
\* trade log and the running flag as they were and places no order unless
\* place_order itself raised; the next call for that ticker is gated like
\* any other call.
C4_ExceptionsAreContained ==
    /\ last_call.exc_hit # "none" =>
          /\ ~last_call.raised
          /\ Len(trade_history) = last_call.hist_len
          /\ engine_is_running
          /\ last_call.exc_hit # "place_order" => last_call.placed = 0
    /\ (/\ last_call.after_failure
        /\ last_call.exc_hit = "none"
        /\ engine_is_running
        /\ StrategyGateHolds(last_call)
        /\ CriteriaGateHolds(last_call)
        /\ FrequencyGateHolds(last_call)
        /\ select_platform(last_call.asset_type) \in traders
        /\ ~last_call.has_position
        /\ last_call.ticker \notin get_account_summary.open_tickers)
          => last_call.placed = 1

C4_Witness ==
    /\ last_call.after_failure
    /\ last_call.placed = 1
    /\ last_call.place = "filled"
    /\ Len(trade_history) = last_call.hist_len + 1

\* C5 as stated: on risk approval one order is submitted and one entry is
\* appended.
C5_Original ==
    last_call.risk.approved =>
        /\ last_call.placed = 1
        /\ Len(trade_history) = last_call.hist_len + 1

IsPrefix(a, b) == Len(a) <= Len(b) /\ SubSeq(b, 1, Len(a)) = a

\* C5 amended: on risk approval exactly one order is submitted; exactly one
\* entry, for that ticker, is appended iff place_order returned success;
\* a call that submitted no order appends nothing; the log only grows.
C5_LogOnSuccessOnly ==
    /\ [](/\ last_call.risk.approved => last_call.placed = 1
          /\ (last_call # NoCall /\ last_call.placed = 0)
                => Len(trade_history) = last_call.hist_len
          /\ last_call.placed = 1 =>
                IF last_call.place = "filled"
                THEN /\ Len(trade_history) = last_call.hist_len + 1
                     /\ trade_history[Len(trade_history)].ticker = last_call.ticker
                     /\ trade_history[Len(trade_history)].timestamp = last_call.time
                ELSE Len(trade_history) = last_call.hist_len)
    /\ [][IsPrefix(trade_history, trade_history')]_vars

C5_Witness ==
    /\ last_call.risk.approved
    /\ last_call.placed = 1
    /\ last_call.place = "rejected"
    /\ Len(trade_history) = last_call.hist_len
    /\ last_call.hist_len > 0

\* ------------------------------------------------------ tracker claims
Evaluated == last_op.name = "task_price_return" /\ ~last_op.eval.raised
EvalTask == tasks[last_op.eval.task]

StopLossCrossed(p) ==
    /\ p.stop_loss # None
    /\ \/ p.side = "LONG" /\ p.current_price <= p.stop_loss
       \/ p.side = "SHORT" /\ p.current_price >= p.stop_loss

TakeProfitCrossed(p) ==
    /\ p.take_profit # None
    /\ \/ p.side = "LONG" /\ p.current_price >= p.take_profit
       \/ p.side = "SHORT" /\ p.current_price <= p.take_profit

\* C6: for a position evaluated with a refreshed price, the stop-loss close
\* is issued iff stop_loss is set and the price is at or beyond it
\* (LONG: price <= stop_loss, SHORT: price >= stop_loss).
C6_StopLossBoundaryInclusive ==
    Evaluated =>
        LET p == last_op.eval.position
            issued == /\ last_op.eval.exit = "stop_loss"
                      /\ EvalTask.pc = "close"
                      /\ EvalTask.exit = "stop_loss"
        IN /\ issued <=> StopLossCrossed(p)
           /\ p.stop_loss = None => last_op.eval.exit # "stop_loss"

C6_Witness ==
    /\ Evaluated
    /\ last_op.eval.position.side = "LONG"
    /\ last_op.eval.position.entry_price = 100
    /\ last_op.eval.position.stop_loss = 92
    /\ last_op.eval.position.current_price = 92
    /\ last_op.eval.exit = "stop_loss"
    /\ EvalTask.pc = "close"

ExpectedExit(p, t) ==
    IF StopLossCrossed(p) THEN "stop_loss"
    ELSE IF TakeProfitCrossed(p) THEN "take_profit"
    ELSE IF t - p.opened_at > max_hold_hours THEN "time_limit"
    ELSE "none"

\* C7: per position and cycle at most one exit fires, stop-loss before
\* take-profit before time limit; one alert of that type and one
\* close_position call are made, none when no exit condition holds, and a
\* position is evaluated at most once per cycle.
C7_OneExitByPrecedence ==
    /\ \A i \in 1..Len(cycle_log) :
          /\ cycle_log[i].closes = (IF cycle_log[i].exit = "none" THEN 0 ELSE 1)
          /\ cycle_log[i].alerts_added = cycle_log[i].closes
          /\ \A j \in 1..Len(cycle_log) :
                (/\ cycle_log[j].trader = cycle_log[i].trader
                 /\ cycle_log[j].ticker = cycle_log[i].ticker) => i = j
    /\ Evaluated =>
          LET p == last_op.eval.position
              ex == ExpectedExit(p, last_op.eval.time)
          IN /\ last_op.eval.exit = ex
             /\ cycle_log[Len(cycle_log)].exit = ex
             /\ ex # "none" =>
                   /\ alerts # <<>>
                   /\ alerts[Len(alerts)] =
                         [ticker |-> p.ticker, alert_type |-> ex]
                   /\ EvalTask.pc = "close"
             /\ ex = "none" => EvalTask.pc # "close"
    /\ Len(alerts) = stats.stop_loss_triggered + stats.take_profit_triggered
                       + stats.time_limit_triggered
                       + Cardinality({t \in 1..Len(tasks) : tasks[t].pc = "close"})
                       + Cardinality({t \in 1..Len(tasks) :
                                         tasks[t].cancelled_at = "close"})

C7_Witness ==
    /\ Evaluated
    /\ StopLossCrossed(last_op.eval.position)
    /\ TakeProfitCrossed(last_op.eval.position)
    /\ last_op.eval.time - last_op.eval.position.opened_at > max_hold_hours
    /\ last_op.eval.exit = "stop_loss"
    /\ cycle_log[Len(cycle_log)].closes = 1

LiveTasks == {t \in 1..Len(tasks) : tasks[t].pc # "done"}

\* C9: once stop() has returned every monitoring task has terminated and
\* the tracker issues no trader call until start() is called again.
C9_NoTaskAfterStop ==
    /\ [](api.state = "stopped" => LiveTasks = {})
    /\ [][(api.state = "stopped" /\ api'.state = "stopped")
             => trader_calls' = trader_calls]_vars

C9_Witness ==
    /\ api.state = "stopped"
    /\ monitor_task # 0
    /\ tasks[monitor_task].cancelled_at = "close"
    /\ LiveTasks = {}

\* C10: start() while running creates no task and changes nothing, so at
\* most one monitoring task is live at any time.
C10_StartIdempotent ==
    /\ [](Cardinality(LiveTasks) <= 1)
    /\ [][last_op'.name = "tracker_start_noop"
             => (tracker_is_running /\ UNCHANGED <<now, engineVars, callVars,
                                                   trackerVars>>)]_vars

C10_Witness ==
    /\ last_op.name = "tracker_start_noop"
    /\ Cardinality(LiveTasks) = 1
    /\ Len(tasks) = 2

\* the call cap has been reached: the model takes no further trader call
Capped == trader_calls >= MaxCalls

FailedClose(tk) ==
    /\ last_op.name = "task_close_return"
    /\ last_op.eval.ticker = tk
    /\ last_op.eval.result # "success"

CloseIssuedIn(tks, tk) ==
    \E t \in 1..Len(tks) :
        tks[t].pc = "close" /\ Head(tks[t].positions).ticker = tk

CloseIssued(tk) == CloseIssuedIn(tasks, tk)

InBookOf(bks, trader, tk) ==
    \E i \in 1..Len(bks[trader]) : bks[trader][i].ticker = tk

InBook(trader, tk) == InBookOf(books, trader, tk)

\* C11: a failed close_position (non-success or exception) is not retried in
\* the same cycle and leaves the position in the trader's book; in a later
\* cycle the exit is evaluated again and close_position is called again when
\* the condition holds; a successful close removes the position.
C11_FailedCloseRetriedNextCycle ==
    /\ [][last_op'.name = "task_close_return" =>
             LET tk == last_op'.eval.ticker
                 tr == last_op'.eval.trader
             IN IF last_op'.eval.result = "success"
                THEN ~InBookOf(books', tr, tk)
                ELSE /\ books' = books
                     /\ InBookOf(books', tr, tk)
                     /\ ~CloseIssuedIn(tasks', tk)
                     /\ tasks'[last_op'.eval.task].pc # "done"]_vars
    /\ [](\A i, j \in 1..Len(cycle_log) :
             (/\ cycle_log[i].trader = cycle_log[j].trader
              /\ cycle_log[i].ticker = cycle_log[j].ticker) => i = j)
    /\ [](Evaluated =>
             (ExpectedExit(last_op.eval.position, last_op.eval.time) # "none"
                 => CloseIssued(last_op.eval.position.ticker)))
    /\ \A tk \in {"BTC", "AAPL"} :
          FailedClose(tk) ~> (CloseIssued(tk) \/ Capped)

C11_Witness ==
    /\ cycles = 2
    /\ CloseIssued("BTC")
    /\ Len(alerts) = 2
    /\ alerts[1].ticker = "BTC"
    /\ alerts[2].ticker = "BTC"
    /\ stats.auto_closed_positions = 0
    /\ stats.stop_loss_triggered + stats.take_profit_triggered
          + stats.time_limit_triggered = 1
    /\ InBook("dydx", "BTC")

\* C12: a price of 0 returned by get_current_price is an unknown price: no
\* stop-loss or take-profit exit is decided from it and no close_position
\* call is issued on account of it.
C12_ZeroPriceIsUnknown ==
    (Evaluated /\ last_op.eval.position.current_price = 0) =>
        /\ last_op.eval.exit \notin {"stop_loss", "take_profit"}
        /\ EvalTask.pc = "close" => EvalTask.exit = "time_limit"

\* where a task must be once an error for the trader at index ti has been
\* contained: at the next trader, or asleep until the next cycle
AtNextTrader(old, new) ==
    IF old.ti < Len(TrackerTraders)
    THEN new.pc = "get_all" /\ new.ti = old.ti + 1
    ELSE new.pc = "sleep"

\* the same for an error on one position: at the next position of the trader
AtNextPosition(old, new) ==
    IF Len(old.positions) > 1
    THEN /\ new.pc = "get_price"
         /\ new.ti = old.ti
         /\ new.positions = Tail(old.positions)
    ELSE AtNextTrader(old, new)

RaisedStep ==
    \/ last_op.name = "task_get_all_return" /\ last_op.eval.result = "raise"
    \/ last_op.name = "task_price_return" /\ last_op.eval.raised
    \/ last_op.name = "task_close_return" /\ last_op.eval.result = "raise"

\* C13: an exception from get_all_positions, get_current_price or
\* close_position is contained: the cycle goes on with the remaining
\* positions of the trader and with the other traders, the monitoring task
\* does not terminate, and a later cycle runs while the tracker is running.
C13_FailuresAreIsolated ==
    /\ [][(last_op'.name = "task_get_all_return"
              /\ last_op'.eval.result = "raise") =>
             AtNextTrader(tasks[last_op'.eval.task],
                          tasks'[last_op'.eval.task])]_vars
    /\ [][(last_op'.name = "task_price_return" /\ last_op'.eval.raised) =>
             /\ AtNextPosition(tasks[last_op'.eval.task],
                               tasks'[last_op'.eval.task])
             /\ alerts' = alerts]_vars
    /\ [][(last_op'.name = "task_close_return"
              /\ last_op'.eval.result = "raise") =>
             AtNextPosition(tasks[last_op'.eval.task],
                            tasks'[last_op'.eval.task])]_vars
    /\ \A n \in 1..MaxCalls :
          (RaisedStep /\ cycles = n) ~> (cycles > n \/ Capped)

C13_Witness ==
    /\ last_op.name = "task_price_return"
    /\ last_op.eval.raised
    /\ last_op.eval.position.ticker = "BTC"
    /\ tasks[1].pc = "get_price"
    /\ Head(tasks[1].positions).ticker = "ETH"
    /\ cycles = 2

\* C14: the engine starts even when a trader's connect() returns False or
\* raises, and for the rest of the run no process_ticker call submits an
\* order to that trader.
C14_UnavailableTraderGetsNoOrder ==
    /\ last_op.name = "engine_start" => engine_is_running
    /\ last_call.placed = 1 =>
          select_platform(last_call.asset_type) \notin unavailable

\* ---------------------------------------------------- aggregator claims
AggCalled == agg_out # NoAggResult
AggReturned == AggCalled /\ agg_out.raised = "none"

\* the registered sources whose get_signal returns, in registration order
ReturningSources ==
    SelectSeq([i \in 1..Len(agg_in.sources) |-> i],
              LAMBDA i : ~agg_in.sources[i].raises)

\* C15: aggregate does not raise; the contributing list holds the signals
\* of exactly the sources whose get_signal returned, in registration order,
\* and with no such source the result is the canonical neutral signal.
C15_RaisingSourcesExcluded ==
    AggCalled =>
        /\ agg_out.raised = "none"
        /\ Len(agg_out.contributing_signals) = Len(ReturningSources)
        /\ \A k \in 1..Len(ReturningSources) :
              LET i == ReturningSources[k]
                  sig == agg_out.contributing_signals[k]
              IN /\ sig.source = i
                 /\ sig.signal_type = agg_in.sources[i].signal.signal_type
                 /\ sig.strength = agg_in.sources[i].signal.strength
                 /\ sig.confidence = agg_in.sources[i].signal.confidence
        /\ ReturningSources = <<>> =>
              /\ agg_out.signal_type = "NEUTRAL"
              /\ RatEq(agg_out.strength, Rat(0, 1))
              /\ RatEq(agg_out.confidence, Rat(1, 2))
              /\ agg_out.contributing_signals = <<>>

InUnit(r) == 0 <= r.n /\ r.n <= r.d
InNeutralBand(r) == RatLt(Rat(7, 20), r) /\ RatLt(r, Rat(13, 20))

\* C16 as stated: under each policy final_score is in [0,1] and the result
\* is NEUTRAL iff final_score lies strictly between 0.35 and 0.65.
C16_Original ==
    AggReturned =>
        /\ InUnit(agg_out.final_score)
        /\ agg_out.signal_type = "NEUTRAL" <=> InNeutralBand(agg_out.final_score)

\* C16 amended: under each policy final_score is in [0,1]; under
\* weighted_average, and for the canonical neutral result, the result is
\* NEUTRAL iff final_score lies strictly between 0.35 and 0.65.
C16_ScoreInUnitAndBandForWeightedAverage ==
    AggReturned =>
        /\ InUnit(agg_out.final_score)
        /\ (\/ agg_in.conflict_resolution = "weighted_average"
            \/ agg_out.contributing_signals = <<>>) =>
              (agg_out.signal_type = "NEUTRAL"
                  <=> InNeutralBand(agg_out.final_score))

C16_Witness ==
    /\ AggReturned
    /\ agg_in.conflict_resolution = "weighted_average"
    /\ RatEq(agg_out.final_score, Rat(7, 20))
    /\ agg_out.signal_type = "SELL"
    /\ Len(agg_out.contributing_signals) = 2

\* the claim's formula for final_score, from the contributing signals
SignOf(ty) == IF ty = "BUY" THEN 1 ELSE IF ty = "SELL" THEN 0 - 1 ELSE 0

ExpectedFinalScore(signals) ==
    LET N == Len(signals)
        num == SeqSum([i \in 1..N |->
                  (10 + SignOf(signals[i].signal_type) * signals[i].strength)
                     * signals[i].confidence * signals[i].weight])
        den == SeqSum([i \in 1..N |-> signals[i].weight])
    IN IF den = 0 THEN Rat(1, 2) ELSE Rat(num, 200 * den)

ScenarioSources ==
    << Source(7, FALSE, Signal("BUY", 8, 9)),
       Source(7, FALSE, Signal("BUY", 9, 8)),
       Source(3, FALSE, Signal("NEUTRAL", 0, 5)) >>

\* C17: under weighted_average final_score is
\* sum(value * confidence * weight) / sum(weight), 0.5 when the weights sum
\* to 0; the result is BUY iff final_score >= 0.65, SELL iff <= 0.35 and
\* NEUTRAL otherwise; the three-source scenario scores above 0.65 and is BUY.
C17_WeightedAverageFormula ==
    (/\ AggReturned
     /\ agg_in.conflict_resolution = "weighted_average"
     /\ agg_out.contributing_signals # <<>>) =>
        LET f == agg_out.final_score IN
        /\ RatEq(f, ExpectedFinalScore(agg_out.contributing_signals))
        /\ agg_out.signal_type = "BUY" <=> RatLe(Rat(13, 20), f)
        /\ agg_out.signal_type = "SELL" <=> RatLe(f, Rat(7, 20))
        /\ agg_out.signal_type \in {"BUY", "SELL", "NEUTRAL"}
        /\ agg_in.sources = ScenarioSources =>
              /\ RatLt(Rat(13, 20), f)
              /\ RatEq(f, Rat(587, 850))
              /\ agg_out.signal_type = "BUY"

C17_Witness ==
    /\ AggReturned
    /\ agg_in.conflict_resolution = "weighted_average"
    /\ Len(agg_out.contributing_signals) = 1
    /\ RatEq(agg_out.final_score, Rat(13, 20))
    /\ agg_out.signal_type = "BUY"

SameSignal(a, b) ==
    /\ a.signal_type = b.signal_type
    /\ a.strength = b.strength
    /\ a.confidence = b.confidence

AllIdentical(signals) ==
    \A i, j \in 1..Len(signals) : SameSignal(signals[i], signals[j])

\* C18: for N >= 1 signals of identical direction, strength and confidence
\* and positive weights, weighted_average's final_score is the signals'
\* common value * confidence, whatever N and the weights are.
C18_IdenticalSignalsKeepTheirScore ==
    (/\ AggReturned
     /\ agg_in.conflict_resolution = "weighted_average"
     /\ agg_out.contributing_signals # <<>>
     /\ AllIdentical(agg_out.contributing_signals)
     /\ \A i \in 1..Len(agg_out.contributing_signals) :
           agg_out.contributing_signals[i].weight > 0) =>
        LET sig == agg_out.contributing_signals[1] IN
        RatEq(agg_out.final_score,
              Rat((10 + SignOf(sig.signal_type) * sig.strength) * sig.confidence,
                  200))

C18_Witness ==
    /\ AggReturned
    /\ agg_in.conflict_resolution = "weighted_average"
    /\ Len(agg_out.contributing_signals) = 3
    /\ AllIdentical(agg_out.contributing_signals)
    /\ agg_out.contributing_signals[1].weight = 7
    /\ agg_out.contributing_signals[2].weight = 20
    /\ agg_out.contributing_signals[3].weight = 7
    /\ RatEq(agg_out.final_score, Rat(81, 100))

ConsistencyPolicy ==
    agg_in.conflict_resolution \in {"weighted_average", "majority_vote"}

\* one BUY and one SELL of the same strength
OpposedPair(signals) ==
    /\ Len(signals) = 2
    /\ {signals[1].signal_type, signals[2].signal_type} = {"BUY", "SELL"}
    /\ signals[1].strength = signals[2].strength

\* the same pair at strength st
AtStrength(signals, st) ==
    [i \in 1..Len(signals) |-> [signals[i] EXCEPT !.strength = st]]

\* what C19 says of every result but the opposed pairs
ConsistencyBasics ==
    LET sigs == agg_out.contributing_signals IN
    /\ InUnit(agg_out.confidence)
    /\ Len(sigs) = 1 => RatEq(agg_out.confidence, Rat(sigs[1].confidence, 10))
    /\ (Len(sigs) >= 2 /\ AllIdentical(sigs)) =>
          /\ RatEq(consistency(sigs), Rat(1, 1))
          /\ RatEq(agg_out.confidence, Rat(sigs[1].confidence, 10))
    /\ OpposedPair(sigs) =>
          \A st \in 0..10 :
             (st > sigs[1].strength =>
                 RatLt(consistency(AtStrength(sigs, st)), consistency(sigs)))

\* C19 as stated: ..., and for one BUY and one SELL of equal strength s the
\* aggregated confidence is strictly smaller for larger s.
C19_Original ==
    (AggReturned /\ ConsistencyPolicy /\ agg_out.contributing_signals # <<>>) =>
        LET sigs == agg_out.contributing_signals IN
        /\ ConsistencyBasics
        /\ OpposedPair(sigs) =>
              \A st \in 0..10 :
                 (st > sigs[1].strength =>
                     RatLt(calculate_consistency(AtStrength(sigs, st)),
                           agg_out.confidence))

\* C19 amended: the aggregated confidence is consistency * mean confidence,
\* in [0,1]; it is the signal's confidence for a single signal and the common
\* confidence for identical signals (consistency 1.0); for one BUY and one
\* SELL of equal strength s the consistency factor is strictly smaller for
\* larger s, and so is the aggregated confidence unless both confidences
\* are 0, in which case it is 0 for every s.
C19_ConsistencyConfidence ==
    (AggReturned /\ ConsistencyPolicy /\ agg_out.contributing_signals # <<>>) =>
        LET sigs == agg_out.contributing_signals IN
        /\ ConsistencyBasics
        /\ OpposedPair(sigs) =>
              \A st \in 0..10 :
                 (st > sigs[1].strength =>
                     IF sigs[1].confidence + sigs[2].confidence > 0
                     THEN RatLt(calculate_consistency(AtStrength(sigs, st)),
                                agg_out.confidence)
                     ELSE /\ agg_out.confidence.n = 0
                          /\ calculate_consistency(AtStrength(sigs, st)).n = 0)

C19_Witness ==
    /\ AggReturned
    /\ agg_in.conflict_resolution = "majority_vote"
    /\ OpposedPair(agg_out.contributing_signals)
    /\ agg_out.contributing_signals[1].strength = 8
    /\ agg_out.contributing_signals[1].confidence = 9
    /\ agg_out.contributing_signals[2].confidence = 9
    /\ RatEq(agg_out.confidence, Rat(324, 1000))

\* ------------------------------------------------------ catalog claims
EligibleIn(i, srcs, a) ==
    /\ a \in catalog[i].allowed_asset_types
    /\ catalog[i].required_signal_sources \subseteq srcs

\* C20: select_strategy returns the first strategy in registration order
\* that allows the asset type and whose required sources are all present,
\* none iff no strategy is eligible; it leaves the catalog as it is and a
\* repeated call with the same inputs returns the same strategy.
C20_FirstEligibleStrategy ==
    /\ [](selected.calls > 0 =>
            LET srcs == selected.signal_sources
                a == selected.asset_type
                E == {i \in 1..Len(catalog) : EligibleIn(i, srcs, a)}
            IN /\ selected.result = NoStrategy <=> E = {}
               /\ E # {} =>
                     \E i \in E : /\ selected.result = catalog[i]
                                  /\ \A j \in E : i <= j)
    /\ [][last_op'.name = "select_strategy" => catalog' = catalog]_vars
    /\ [][(/\ last_op.name = "select_strategy"
            /\ last_op'.name = "select_strategy"
            /\ selected'.signal_sources = selected.signal_sources
            /\ selected'.asset_type = selected.asset_type)
             => selected'.result = selected.result]_vars

C20_Witness ==
    /\ selected.calls = 2
    /\ selected.signal_sources = {"sentiment"}
    /\ selected.asset_type = "crypto"
    /\ selected.result.name = "sentiment_short"
    /\ EligibleIn(1, {"sentiment"}, "crypto")
    /\ EligibleIn(2, {"sentiment"}, "crypto")
    /\ catalog[1].name = "sentiment_short"
    /\ catalog[2].name = "sentiment_swing"

\* -------------------------------------------------- risk manager claims
StopCalled == stop_out # NoStop

ExpectedStopPct(strength) ==
    min_stop_loss_pct * 100
        + (max_stop_loss_pct - min_stop_loss_pct) * (100 - strength)

InvalidOrder(order) ==
    \/ order.size <= 0
    \/ order.order_type = "LIMIT" /\ order.price = None

\* C23: for every Trader implementation, place_order on an Order with
\* size <= 0, or on a LIMIT Order without a price, returns a non-success
\* REJECTED OrderResult and submits nothing to the venue.
C23_InvalidOrderNeverSubmitted ==
    (po # NoPlace /\ InvalidOrder(po.order)) =>
        /\ po.raised = "none"
        /\ ~po.result.success
        /\ po.result.status = "REJECTED"
        /\ po.sent = 0

\* ---------------------------------------------------- engine order claims
\* C24: every Order the engine submits is a MARKET order for the processed
\* ticker, BUY iff the aggregated signal is BUY and SELL otherwise, of size
\* approved_size = the proposed size, with the stop_loss and take_profit of
\* the RiskCheck of the same call; an Order is built only to be passed to
\* one place_order call.
C24_OrderCarriesTheRiskCheck ==
    /\ last_call.order # NoOrder <=> last_call.placed = 1
    /\ last_call.placed = 1 =>
          LET o == last_call.order
              st == strategies[StrategyIndex(last_call.strategy)]
              proposed_size == calculate_position_size(last_call.signal, st)
              rc == check_trade(get_account_summary, last_call.ticker,
                                last_call.signal, proposed_size)
          IN /\ o.order_type = "MARKET"
             /\ o.ticker = last_call.ticker
             /\ o.side \in {"BUY", "SELL"}
             /\ o.side = "BUY" <=> last_call.signal.signal_type = "BUY"
             /\ last_call.risk = rc
             /\ rc.approved
             /\ rc.approved_size = proposed_size
             /\ o.size = rc.approved_size
             /\ o.stop_loss = rc.stop_loss
             /\ o.take_profit = rc.take_profit
             /\ o.stop_loss # None /\ o.take_profit # None

C24_Witness ==
    /\ last_call.placed = 1
    /\ last_call.signal.signal_type = "CLOSE"
    /\ last_call.order.side = "SELL"
    /\ last_call.order.size = 80000
    /\ last_call.order.stop_loss > reference_price
    /\ last_call.order.take_profit < reference_price

\* ------------------------------------------------- tracker frame claims
\* new is old but for current_price and last_updated
RefreshedOnly(old, new) ==
    [old EXCEPT !.current_price = new.current_price,
                !.last_updated = new.last_updated] = new

\* the positions a task holds while it monitors: fetched from the trader's
\* book, refreshed in place, passed by the loop, or dropped
TransientStep(old, new, book) ==
    \/ new = <<>>
    \/ old = <<>> /\ new = book
    \/ new = Tail(old)
    \/ /\ Len(new) = Len(old)
       /\ \A i \in 1..Len(old) : RefreshedOnly(old[i], new[i])

\* C25: the tracker never adds to or removes from a trader's book itself: a
\* book changes only by a successful close_position of that trader, which
\* removes the closed ticker; the tracker changes no field of a position
\* but current_price and last_updated; the engine's trade log is never
\* touched by the tracker.
C25_TrackerLeavesBooksToTraders ==
    /\ [][books' # books =>
             /\ last_op'.name = "task_close_return"
             /\ last_op'.eval.result = "success"
             /\ \A tr \in DOMAIN books :
                   IF tr = last_op'.eval.trader
                   THEN /\ \A i \in 1..Len(books'[tr]) :
                             \E j \in 1..Len(books[tr]) :
                                 books'[tr][i] = books[tr][j]
                        /\ \A j \in 1..Len(books[tr]) :
                             (\E i \in 1..Len(books'[tr]) :
                                 books'[tr][i] = books[tr][j])
                               <=> books[tr][j].ticker # last_op'.eval.ticker
                   ELSE books'[tr] = books[tr]]_vars
    /\ [][\A t \in 1..Len(tasks) :
             TransientStep(tasks[t].positions, tasks'[t].positions,
                           books[TrackerTraders[Max(1, tasks'[t].ti)]])]_vars
    /\ [][last_op'.name = "task_price_return" =>
             /\ RefreshedOnly(Head(tasks[last_op'.eval.task].positions),
                              last_op'.eval.position)
             /\ books' = books]_vars
    /\ [][trade_history' = trade_history]_vars

C25_Witness ==
    /\ Len(tasks) >= 1
    /\ tasks[1].pc = "close"
    /\ Head(tasks[1].positions).ticker = "BTC"
    /\ Head(tasks[1].positions).current_price = 92
    /\ Head(tasks[1].positions).stop_loss = 92
    /\ books.dydx # <<>>
    /\ books.dydx[1].ticker = "BTC"
    /\ books.dydx[1].current_price = 100
    /\ stats.auto_closed_positions = 1

\* ------------------------------------------------------- account claims
\* the positions opened through the engine and still open (books start empty)
OpenPositions == Len(books.dydx) + Len(books.ibkr)

OpenWithinLimit == OpenPositions <= max_open_positions

NoTickerHeldTwice ==
    \A p1 \in Platforms, p2 \in Platforms :
        \A i \in 1..Len(books[p1]), j \in 1..Len(books[p2]) :
            books[p1][i].ticker = books[p2][j].ticker => (p1 = p2 /\ i = j)

\* C26: risk checks are evaluated against the account's state at the time
\* of the call, so after any sequence of process_ticker calls and tracker
\* closes the number of positions opened through the engine and still open
\* never exceeds max_open_positions, and no ticker is held by two open
\* positions at once.
C26_OpenPositionsWithinAccountLimits ==
    /\ OpenWithinLimit
    /\ NoTickerHeldTwice

\* the k-th entry of the trade log was within its strategy's limits when it
\* was appended: fewer than max_trades_per_day entries of its day before it,
\* and the latest earlier entry of its ticker min_signal_gap_hours back
EntryWithinFrequency(h, k) ==
    LET e == h[k]
        st == strategies[StrategyIndex(e.strategy)]
        before == SubSeq(h, 1, k - 1)
        last_trade_time == last_ticker_trade(before, e.ticker)
    IN /\ SeqFilterCount(before, "", e.timestamp \div 24) < st.max_trades_per_day
       /\ last_trade_time # None =>
             e.timestamp - last_trade_time >= st.min_signal_gap_hours

\* C27: the trade-frequency limits also hold when two process_ticker
\* invocations are interleaved at their suspension points: under every
\* interleaving the entries of the trade log dated the same day never exceed
\* the strategy's max_trades_per_day, and two entries for the same ticker
\* are never closer than min_signal_gap_hours (two interleaved calls for one
\* ticker place at most one order).
C27_FrequencyHoldsUnderInterleaving ==
    \A k \in 1..Len(trade_history) : EntryWithinFrequency(trade_history, k)

\* ------------------------------------------- aggregator totality claims
SignalTypes == {"BUY", "SELL", "NEUTRAL", "CLOSE"}

\* every registered source returns a Signal of one of the four types
AllSourcesReturn ==
    /\ agg_in.sources # <<>>
    /\ \A i \in 1..Len(agg_in.sources) :
          /\ ~agg_in.sources[i].raises
          /\ agg_in.sources[i].signal.signal_type \in SignalTypes

\* C28: aggregate returns an AggregatedSignal without raising for every
\* combination of contributing Signals whose signal_type is drawn from
\* {BUY, SELL, NEUTRAL, CLOSE}, under each of the policies weighted_average,
\* majority_vote and priority.
C28_AggregateTotalOverSignalTypes ==
    (AggCalled /\ AllSourcesReturn /\ agg_in.conflict_resolution \in Policies) =>
        /\ agg_out.raised = "none"
        /\ agg_out.signal_type \in SignalTypes
        /\ Len(agg_out.contributing_signals) = Len(agg_in.sources)

AllOfType(signals, ty) ==
    \A i \in 1..Len(signals) : signals[i].signal_type = ty

WellFormed(signals) ==
    /\ signals # <<>>
    /\ \A i \in 1..Len(signals) :
          /\ signals[i].weight > 0
          /\ signals[i].strength \in 0..10
          /\ signals[i].confidence \in 0..10

\* C29: weighted_average preserves direction: when every contributing
\* signal is BUY (strength and confidence in [0,1], positive weights) the
\* aggregated signal_type is never SELL, and when every contributing signal
\* is NEUTRAL the aggregated signal_type is NEUTRAL.
C29_WeightedAveragePreservesDirection ==
    (/\ AggReturned
     /\ agg_in.conflict_resolution = "weighted_average"
     /\ WellFormed(agg_out.contributing_signals)) =>
        /\ AllOfType(agg_out.contributing_signals, "BUY") =>
              agg_out.signal_type # "SELL"
        /\ AllOfType(agg_out.contributing_signals, "NEUTRAL") =>
              agg_out.signal_type = "NEUTRAL"

\* ------------------------------------------------ tracker statistics
Triggered(st) ==
    st.stop_loss_triggered + st.take_profit_triggered + st.time_limit_triggered

StatsOrdered(st, n_alerts) ==
    /\ st.auto_closed_positions <= Triggered(st)
    /\ Triggered(st) <= n_alerts
    /\ st.auto_closed_positions <= st.total_positions_monitored
    /\ st.stop_loss_triggered <= st.total_positions_monitored
    /\ st.take_profit_triggered <= st.total_positions_monitored
    /\ st.time_limit_triggered <= st.total_positions_monitored
    /\ Triggered(st) <= st.total_positions_monitored

NeverDecreases(old, new) ==
    \A k \in DOMAIN old : old[k] <= new[k]

\* C30: in every state reachable by tracker cycles, with close_position
\* succeeding, failing or raising, auto_closed_positions <= stop_loss_triggered
\* + take_profit_triggered + time_limit_triggered <= number of recorded
\* alerts, each of these counters is <= total_positions_monitored, and no
\* counter ever decreases.
C30_StatsOrderedAndMonotone ==
    /\ [](StatsOrdered(stats, Len(alerts)))
    /\ [][/\ NeverDecreases(stats, stats')
          /\ Len(alerts') >= Len(alerts)]_vars

C30_Witness ==
    /\ last_op.name = "task_close_return"
    /\ last_op.eval.result = "raise"
    /\ stats.auto_closed_positions < Triggered(stats)
    /\ Triggered(stats) < Len(alerts)
    /\ Triggered(stats) < stats.total_positions_monitored

====
